---- MODULE Spec2Model ----
(***************************************************************************)
(* A state-machine model of the CLTune tuning engine: TunerImpl::Tune,     *)
(* TunerImpl::RunKernel, the reference snapshot and output verification,   *)
(* and TunerImpl::ModelPrediction, over an abstract OpenCL device.         *)
(*                                                                         *)
(* The device is abstract: a build, a buffer transfer, a launch or a       *)
(* timing query either succeeds or raises the std::runtime_error that      *)
(* CheckError / Error of clpp11.h raise.  The contents of an output buffer *)
(* are one abstract value: "zero" after a reset (and for the uploaded host *)
(* data, as in the conv sample), "a" for the result the reference kernel   *)
(* computes, "b" for any other result.  Two contents are within the L2     *)
(* threshold of each other exactly when they are the same abstract value.  *)
(***************************************************************************)
EXTENDS Integers, Sequences, FiniteSets, TLC

\* ------------------------------------------------------------------ bounds
MaxRuns == 2        \* kNumRuns ranges over 1..MaxRuns
MaxConfigs == 2     \* a tunable kernel has at most MaxConfigs valid configurations
MaxResults == 3     \* a call starts only if its results fit in a log of this length
MaxTopX == 1        \* test_top_x_configurations ranges over 0..MaxTopX
MaxValue == 2       \* a finite buffer element ranges over 0..MaxValue
MaxSamples == 10    \* the split of ModelPrediction is explored for up to MaxSamples results
MaxBytes == 3       \* a transfer asks for 0..MaxBytes bytes, a host container holds as many
MaxLocal == 3       \* a local size ranges over 1..MaxLocal on each axis

\* ------------------------------------------------------- program constants
FloatMax == 1000    \* std::numeric_limits<float>::max(), the failure sentinel
DoubleMax == 2000   \* std::numeric_limits<double>::max()
LocalMemSize == 2   \* Device::LocalMemSize(), in abstract units
kMaxL2Norm == 1     \* TunerImpl::kMaxL2Norm; buffer elements are in units of it
MaxWorkGroupSize == 2   \* Device::MaxWorkGroupSize()

VARIABLES
  has_reference_,      \* TunerImpl::has_reference_
  kernels_,            \* TunerImpl::kernels_ : sequence of kernel descriptors
  configurations,      \* per kernel: KernelInfo::configurations_
  kNumRuns,            \* TunerImpl::kNumRuns
  call,                \* the API call in progress: "idle", "Tune", "ModelPrediction", "aborted"
  pc,                  \* position inside the call
  ret,                 \* where the RunKernel in progress returns to
  k,                   \* index of the kernel of the kernel loop
  p,                   \* loop counter of the configuration loop
  search,              \* the Searcher of the kernel being tuned
  permutation,         \* the configuration under test
  rk,                  \* locals of the RunKernel in progress
  tuning_result,       \* the local TunerResult of the caller of RunKernel
  tuning_results_,     \* TunerImpl::tuning_results_
  reference_outputs_,  \* TunerImpl::reference_outputs_
  dev,                 \* contents of the device output buffers
  mp,                  \* locals of ModelPrediction
  hist                 \* history of the session (observers only)

vars == << has_reference_, kernels_, configurations, kNumRuns, call, pc, ret, k, p,
           search, permutation, rk, tuning_result, tuning_results_, reference_outputs_,
           dev, mp, hist >>

settings == << has_reference_, kernels_, kNumRuns >>

\* ---------------------------------------------------------------- helpers
Range(s) == { s[i] : i \in 1..Len(s) }

Min(a, b) == IF a < b THEN a ELSE b

\* The least element of a sequence of numbers (0 for the empty sequence).
Least(s) ==
  IF s = << >> THEN 0 ELSE CHOOSE m \in Range(s) : \A e \in Range(s) : m <= e

RECURSIVE MinOf(_, _)
MinOf(acc, s) == IF s = << >> THEN acc ELSE MinOf(Min(acc, Head(s)), Tail(s))

\* ------------------------------------------------------- the argument registry
\* The arguments of the session, as (kernel position, handle).  As in the conv
\* sample: scalars first, then the input buffers, then the output buffers.
arguments_int_ == << << 0, "kSizeX" >> >>

arguments_input_ == << [index |-> 1, buffer |-> "in1"] >>

arguments_output_ ==
  << [index |-> 2, type |-> "kFloat", size |-> 1, buffer |-> "out1"],
     [index |-> 3, type |-> "kInt", size |-> 2, buffer |-> "out2"] >>

NumOutputs == Len(arguments_output_)

\* What the kernel-argument loops of RunKernel bind: position |-> handle.
AllArguments ==
  { << arguments_int_[i][1], arguments_int_[i][2] >> : i \in 1..Len(arguments_int_) }
  \cup { << arguments_input_[i].index, arguments_input_[i].buffer >> :
           i \in 1..Len(arguments_input_) }
  \cup { << arguments_output_[i].index, arguments_output_[i].buffer >> :
           i \in 1..NumOutputs }

\* ------------------------------------------------------------ the kernels
\* A kernel descriptor: its name, its number of tuning parameters and the number
\* of configurations that pass its constraints.
Kernel(name, nparams, nvalid) == [name |-> name, nparams |-> nparams, nvalid |-> nvalid]

KernelLists ==
  { << Kernel("A", 2, n) >> : n \in 0..MaxConfigs }
  \cup { << Kernel("B", 0, 0) >>, << Kernel("B", 0, 0), Kernel("A", 2, 1) >> }

\* The sessions explored: every kernel list with one launch per candidate, and
\* a kernel with one configuration with up to MaxRuns launches per candidate.
Sessions ==
  [kernels : KernelLists, runs : {1}]
  \cup [kernels : { << Kernel("A", 2, 1) >> }, runs : 2..MaxRuns]

\* A call starts only if the results it appends fit in a log of this length: a
\* session with several launches per candidate is explored for one result.
Capacity == IF kNumRuns = 1 THEN MaxResults ELSE 1

\* KernelInfo::SetConfigurations: the valid configurations, in enumeration order.
\* A configuration is a sequence of settings (name, value).
ParameterNames == << "P", "Q" >>

SetConfigurations(kernel) ==
  [ c \in 1..kernel.nvalid |->
      [ i \in 1..kernel.nparams |-> [name |-> ParameterNames[i], value |-> c + i - 1] ] ]

\* Setting::GetDefine: the definition of a parameter, as a line of source.
GetDefine(setting) == << "#define", setting.name, setting.value >>

\* kernel.source(): the source the kernel was added with, as one piece of text.
KernelSource(name) == << "source", name >>

\* The loop of lines 178-180 (and 522-525) over the first n settings.
RECURSIVE Defines(_, _)
Defines(config, n) ==
  IF n = 0 THEN << >> ELSE Append(Defines(config, n - 1), GetDefine(config[n]))

\* AssembleSource if the definitions came after the kernel source.
AssembleSource_SourceFirst(config, name) ==
  << KernelSource(name) >> \o Defines(config, Len(config))

\* Lines 177-181 (and 522-526): the definitions of the configuration, then
\* the kernel source.
AssembleSource(config, name) == Append(Defines(config, Len(config)), KernelSource(name))

\* KernelInfo::ComputeRanges followed by kernel.local(): the local size of the
\* launch is the base size times the parameter value.
LocalThreads(config) == IF config = << >> THEN 1 ELSE config[1].value

\* What a kernel can leave in an output buffer: the reference result or another.
KernelOutputs == {"a", "b"}

NoResult == [kernel_name |-> "", time |-> 0, threads |-> 0, status |-> FALSE,
             configuration |-> << >>]
NoSearch == [num |-> 0, index |-> 0, gets |-> 0, pushes |-> 0, calcs |-> 0, pushed |-> 0]
NoRun == [name |-> "", cl_status |-> "none", build_status |-> "none", events |-> << >>, bound |-> {},
          local_mem_usage |-> 0, resets |-> 0, binds |-> 0, launches |-> 0,
          timed |-> FALSE, source |-> << >>]
NoModel == [i |-> 0, top_x |-> 0, model_type |-> "none", validation_fraction |-> 0,
            training_samples |-> 0, validation_samples |-> 0, model_results |-> << >>]
\* What an observer of the session has seen: ref_runs, the runs of the reference
\* in this Tune; ref_bound, the arguments it was launched with; ref_stored, the
\* snapshot of this Tune is stored; iter, the steps of the current iteration of
\* the search loop; appended, the results appended for the current kernel; ran
\* and least, whether the last candidate run completed and the least elapsed
\* time its events reported; recorded, its result is appended; missing_read, a
\* comparison read a snapshot entry that does not exist; stopped_in, where an
\* exception left the call; printed, the branch of the last result printed;
\* downloads, the output buffers the last verification read back.
NoHist == [ref_runs |-> 0, ref_bound |-> {}, ref_stored |-> FALSE, iter |-> << >>,
           appended |-> 0, ran |-> FALSE, least |-> 0, recorded |-> FALSE,
           missing_read |-> FALSE, stopped_in |-> "none", printed |-> "none",
           downloads |-> 0]

\* ------------------------------------------------------------------- Init
\* The state after the definition phase: the kernels, the reference and the
\* arguments are registered, the output buffers hold the uploaded host data,
\* nothing is measured yet (constructor, lines 64-106).
Init ==
  /\ has_reference_ \in BOOLEAN
  /\ \E session \in Sessions : kernels_ = session.kernels /\ kNumRuns = session.runs
  /\ configurations = [ i \in 1..Len(kernels_) |-> << >> ]
  /\ call = "idle"
  /\ pc = "idle"
  /\ ret = "none"
  /\ k = 0
  /\ p = 0
  /\ search = NoSearch
  /\ permutation = << >>
  /\ rk = NoRun
  /\ tuning_result = NoResult
  /\ tuning_results_ = << >>
  /\ reference_outputs_ = << >>
  /\ dev = [ i \in 1..NumOutputs |-> "zero" ]
  /\ mp = NoModel
  /\ hist = NoHist

\* ------------------------------------------------------------- RunKernel
RunKernelPcs == {"build", "reset", "bind", "localmem", "launch", "timing", "return"}

\* The call RunKernel(source, kernel, ...): control enters the try block.
EnterRunKernel(source, name, return_pc) ==
  /\ rk' = [NoRun EXCEPT !.name = name, !.source = source]
  /\ pc' = "build"
  /\ ret' = return_pc

\* The catch block of RunKernel (lines 317-323): the invalid tuner result.
CatchResult(name) ==
  [kernel_name |-> name, time |-> FloatMax, threads |-> 0, status |-> FALSE,
   configuration |-> << >>]

\* An exception raised inside the try block: RunKernel returns the invalid result.
Catch ==
  /\ tuning_result' = CatchResult(rk.name)
  /\ pc' = "return"

\* Program::Build if CheckError let every other status pass.
ProgramBuild_OtherStatusIsSuccess(cl_status) ==
  IF cl_status = "CL_BUILD_PROGRAM_FAILURE" THEN "kError"
  ELSE IF cl_status = "CL_INVALID_BINARY" THEN "kInvalid"
  ELSE "kSuccess"

\* Program::Build (clpp11.h 288-302): the status returned for a toolchain status;
\* "exception" stands for CheckError raising on any other non-success status.
ProgramBuild(cl_status) ==
  IF cl_status = "CL_BUILD_PROGRAM_FAILURE" THEN "kError"
  ELSE IF cl_status = "CL_INVALID_BINARY" THEN "kInvalid"
  ELSE IF cl_status = "CL_SUCCESS" THEN "kSuccess"
  ELSE "exception"

ClBuildStatuses == {"CL_SUCCESS", "CL_BUILD_PROGRAM_FAILURE", "CL_INVALID_BINARY",
                    "CL_OUT_OF_RESOURCES"}

\* Lines 239-250: compile; a build error or an invalid binary throws.
RunKernelBuild ==
  /\ call \in {"Tune", "ModelPrediction"}
  /\ pc = "build"
  /\ \E cl_status \in ClBuildStatuses :
       LET build_status == ProgramBuild(cl_status) IN
         /\ rk' = [rk EXCEPT !.cl_status = cl_status, !.build_status = build_status]
         /\ IF build_status = "kSuccess"
              THEN pc' = "reset" /\ UNCHANGED tuning_result
              ELSE Catch
  /\ UNCHANGED << settings, configurations, call, ret, k, p, search, permutation,
                  tuning_results_, reference_outputs_, dev, mp, hist >>

\* ResetOutputs if the reset loop left the last output buffer out.
ResetOutputs_LastSkipped(d, n) ==
  [ i \in 1..NumOutputs |-> IF i <= n /\ i < NumOutputs THEN "zero" ELSE d[i] ]

\* The outputs that the reset loop zeroes when it stops after n buffers.
ResetOutputs(d, n) == [ i \in 1..NumOutputs |-> IF i <= n THEN "zero" ELSE d[i] ]

\* Lines 252-263: sets the output buffers to zero, one Buffer::Write each; a
\* Write that raises leaves the remaining buffers untouched.
RunKernelReset ==
  /\ pc = "reset"
  /\ \E n \in 0..NumOutputs :
       /\ dev' = ResetOutputs(dev, n)
       /\ IF n = NumOutputs
            THEN /\ rk' = [rk EXCEPT !.resets = @ + 1]
                 /\ pc' = "bind"
                 /\ UNCHANGED tuning_result
            ELSE /\ Catch
                 /\ UNCHANGED rk
  /\ UNCHANGED << settings, configurations, call, ret, k, p, search, permutation,
                  tuning_results_, reference_outputs_, mp, hist >>

\* BindArguments if the reference kernel were given the input buffers only.
BindArguments_ReferenceInputsOnly(is_reference) ==
  IF is_reference
    THEN { << arguments_input_[i].index, arguments_input_[i].buffer >> :
             i \in 1..Len(arguments_input_) }
    ELSE AllArguments

\* The arguments RunKernel sets on the kernel object (lines 266-274).
BindArguments(is_reference) == AllArguments

\* Lines 265-274: creates the kernel and sets its arguments.
RunKernelBind ==
  /\ pc = "bind"
  /\ \/ /\ rk' = [rk EXCEPT !.bound = BindArguments(ret = "store"), !.binds = @ + 1]
        /\ hist' = [hist EXCEPT !.ref_bound =
                      IF ret = "store" THEN BindArguments(TRUE) ELSE @]
        /\ pc' = "localmem"
        /\ UNCHANGED tuning_result
     \/ /\ Catch
        /\ UNCHANGED << rk, hist >>
  /\ UNCHANGED << settings, configurations, call, ret, k, p, search, permutation,
                  tuning_results_, reference_outputs_, dev, mp >>

\* Device::IsLocalMemoryValid (clpp11.h 186-188).
IsLocalMemoryValid(local_mem_usage) == local_mem_usage <= LocalMemSize

\* Lines 276-287: local-memory check, then queue_.Finish().
RunKernelLocalMem ==
  /\ pc = "localmem"
  /\ \E usage \in {LocalMemSize, LocalMemSize + 1}, finish_ok \in BOOLEAN :
       /\ rk' = [rk EXCEPT !.local_mem_usage = usage]
       /\ IF IsLocalMemoryValid(usage) /\ finish_ok
            THEN pc' = "launch" /\ UNCHANGED tuning_result
            ELSE Catch
  /\ UNCHANGED << settings, configurations, call, ret, k, p, search, permutation,
                  tuning_results_, reference_outputs_, dev, mp, hist >>

\* Event::GetElapsedTime (clpp11.h 85-95): the elapsed times the events of a
\* candidate can report, in ms; enough for all its launches to differ.
ElapsedTimes == 1..kNumRuns

\* What a launch can leave in the output buffers.  The reference kernel is
\* deterministic: it always computes the reference result "a"; a candidate
\* computes, per buffer, the reference result or something else.
LaunchOutputs(is_reference) ==
  IF is_reference THEN { [ i \in 1..NumOutputs |-> "a" ] }
  ELSE [ 1..NumOutputs -> KernelOutputs ]

\* Whether the launch loop (line 292) runs another launch after t launches.
MoreLaunches(t) == t < kNumRuns

\* Lines 292-296: one launch of the timed loop, then Finish; after the last
\* launch the second Finish.  A launch that is refused enqueues nothing; a launch
\* that was enqueued writes the output buffers, whatever Finish reports.
RunKernelLaunch ==
  /\ pc = "launch"
  /\ MoreLaunches(Len(rk.events))
  /\ \/ /\ Catch
        /\ UNCHANGED << rk, dev >>
     \/ \E out \in LaunchOutputs(ret = "store"), time \in ElapsedTimes,
           finish_ok \in BOOLEAN :
          /\ dev' = out
          /\ rk' = [rk EXCEPT !.events = Append(@, time), !.launches = @ + 1]
          /\ IF finish_ok
               THEN /\ pc' = IF MoreLaunches(Len(rk.events) + 1) THEN "launch" ELSE "timing"
                    /\ UNCHANGED tuning_result
               ELSE Catch
  /\ UNCHANGED << settings, configurations, call, ret, k, p, search, permutation,
                  tuning_results_, reference_outputs_, mp, hist >>

\* ElapsedTime if the reduction kept the time of the last launch.
ElapsedTime_LastLaunch(events) == IF events = << >> THEN FloatMax ELSE events[Len(events)]

\* Lines 298-303: the reduction of the per-launch elapsed times.
ElapsedTime(events) == MinOf(FloatMax, events)

\* Lines 298-314: collects the timings and returns the result; GetElapsedTime
\* raises when waiting for the event fails.
RunKernelTiming ==
  /\ pc = "timing"
  /\ \/ Catch /\ UNCHANGED rk
     \/ /\ tuning_result' = [kernel_name |-> rk.name, time |-> ElapsedTime(rk.events),
                             threads |-> LocalThreads(permutation), status |-> FALSE,
                             configuration |-> << >>]
        /\ rk' = [rk EXCEPT !.timed = TRUE]
        /\ pc' = "return"
  /\ UNCHANGED << settings, configurations, call, ret, k, p, search, permutation,
                  tuning_results_, reference_outputs_, dev, mp, hist >>

\* RunKernel hands its result to its caller (lines 314 and 322); its locals
\* (the program, the kernel object, the events) end here.
RunKernelReturn ==
  /\ pc = "return"
  /\ pc' = ret
  /\ rk' = [rk EXCEPT !.events = << >>, !.bound = {}]
  /\ hist' = IF ret = "store" THEN hist
             ELSE [hist EXCEPT !.iter = IF ret = "verify" THEN Append(@, "run") ELSE @,
                               !.ran = rk.timed, !.least = Least(rk.events),
                               !.recorded = FALSE]
  /\ UNCHANGED << settings, configurations, call, ret, k, p, search, permutation,
                  tuning_result, tuning_results_, reference_outputs_, dev, mp >>

\* ------------------------------------------------------------------ Tune
\* An exception leaves Tune or ModelPrediction: nothing in the library catches
\* it and the caller (main of the sample) has no handler, so the session ends.
Abort ==
  /\ call' = "aborted"
  /\ pc' = "aborted"
  /\ hist' = [hist EXCEPT !.stopped_in = pc]

\* The number of results Tune appends for the kernels from index i on.
RECURSIVE ResultsOfTune(_)
ResultsOfTune(i) ==
  IF i > Len(kernels_) THEN 0
  ELSE (IF kernels_[i].nparams = 0 THEN 1 ELSE kernels_[i].nvalid) + ResultsOfTune(i + 1)

\* Tune() is called (line 124).  With a reference, lines 127-129 run it first.
TuneBegin ==
  /\ call = "idle"
  /\ Len(tuning_results_) + ResultsOfTune(1) <= Capacity
  /\ call' = "Tune"
  /\ k' = 1
  /\ p' = 0
  /\ search' = NoSearch
  /\ permutation' = << >>
  /\ IF has_reference_
       THEN /\ EnterRunKernel(<< KernelSource("reference") >>, "reference", "store")
            /\ hist' = [hist EXCEPT !.ref_runs = 1, !.ref_bound = {}, !.ref_stored = FALSE,
                                    !.iter = << >>, !.appended = 0, !.printed = "none"]
       ELSE /\ pc' = "kernel"
            /\ hist' = [hist EXCEPT !.ref_runs = 0, !.ref_bound = {}, !.ref_stored = FALSE,
                                    !.iter = << >>, !.appended = 0, !.printed = "none"]
            /\ UNCHANGED << rk, ret >>
  /\ UNCHANGED << settings, configurations, tuning_result, tuning_results_,
                  reference_outputs_, dev, mp >>

\* Snapshot if StoreReferenceOutput skipped the last output buffer.
Snapshot_LastSkipped(d, n) ==
  [ i \in 1..(IF n = NumOutputs THEN n - 1 ELSE n) |->
      [type |-> arguments_output_[i].type, size |-> arguments_output_[i].size, data |-> d[i]] ]

\* DownloadReference (lines 358-363) for the first n output buffers.
Snapshot(d, n) ==
  [ i \in 1..n |-> [type |-> arguments_output_[i].type, size |-> arguments_output_[i].size,
                    data |-> d[i]] ]

\* StoreReferenceOutput (lines 344-357): clears the snapshot, then downloads the
\* output buffers one by one; a Read that raises leaves Tune.
TuneStoreReferenceOutput ==
  /\ call = "Tune"
  /\ pc = "store"
  /\ \E n \in 0..NumOutputs :
       /\ reference_outputs_' = Snapshot(dev, n)
       /\ IF n = NumOutputs
            THEN /\ pc' = "kernel"
                 /\ hist' = [hist EXCEPT !.ref_stored = TRUE]
                 /\ rk' = NoRun
                 /\ UNCHANGED call
            ELSE Abort /\ UNCHANGED rk
  /\ UNCHANGED << settings, configurations, ret, k, p, search, permutation,
                  tuning_result, tuning_results_, dev, mp >>

\* Line 134: the kernel loop is over, Tune returns.
TuneReturn ==
  /\ call = "Tune"
  /\ pc = "kernel"
  /\ k > Len(kernels_)
  /\ call' = "idle"
  /\ pc' = "idle"
  /\ UNCHANGED << settings, configurations, ret, k, p, search, permutation, rk,
                  tuning_result, tuning_results_, reference_outputs_, dev, mp, hist >>

\* Lines 138-141: a kernel without tuning parameters is simply run.
TuneKernelNoParameters ==
  /\ call = "Tune"
  /\ pc = "kernel"
  /\ k <= Len(kernels_)
  /\ kernels_[k].nparams = 0
  /\ EnterRunKernel(<< KernelSource(kernels_[k].name) >>, kernels_[k].name, "verify_np")
  /\ permutation' = << >>
  /\ search' = NoSearch
  /\ hist' = [hist EXCEPT !.iter = << >>, !.appended = 0]
  /\ UNCHANGED << settings, configurations, call, k, p, tuning_result,
                  tuning_results_, reference_outputs_, dev, mp >>

\* The searcher created at lines 154-170 (FullSearch, the constructor's default
\* search method): it walks the configurations in enumeration order.
NewSearch(configs) == [NoSearch EXCEPT !.num = Len(configs)]

\* Lines 148-170: computes the configurations and creates the searcher.
TuneSetConfigurations ==
  /\ call = "Tune"
  /\ pc = "kernel"
  /\ k <= Len(kernels_)
  /\ kernels_[k].nparams > 0
  /\ configurations' = [configurations EXCEPT ![k] = SetConfigurations(kernels_[k])]
  /\ search' = NewSearch(SetConfigurations(kernels_[k]))
  /\ p' = 0
  /\ pc' = "loop"
  /\ hist' = [hist EXCEPT !.iter = << >>, !.appended = 0]
  /\ UNCHANGED << settings, call, ret, k, permutation, rk, tuning_result,
                  tuning_results_, reference_outputs_, dev, mp >>

\* Searcher::NumConfigurations.
NumConfigurations(srch) == srch.num

\* The loop condition of line 173.
LoopContinues(i, srch) == i < NumConfigurations(srch)

\* Line 173 is false: the search of this kernel is over (lines 207-215).
TuneLoopExit ==
  /\ call = "Tune"
  /\ pc = "loop"
  /\ ~LoopContinues(p, search)
  /\ k' = k + 1
  /\ pc' = "kernel"
  /\ UNCHANGED << settings, configurations, call, ret, p, search, permutation, rk,
                  tuning_result, tuning_results_, reference_outputs_, dev, mp, hist >>

\* Searcher::GetConfiguration of FullSearch: the configuration at the index.
GetConfiguration(srch, configs) == configs[srch.index + 1]

\* Lines 173-187: fetches the next configuration, assembles the source, computes
\* the ranges and calls RunKernel.
TuneGetConfiguration ==
  /\ call = "Tune"
  /\ pc = "loop"
  /\ LoopContinues(p, search)
  /\ permutation' = GetConfiguration(search, configurations[k])
  /\ search' = [search EXCEPT !.gets = @ + 1]
  /\ EnterRunKernel(AssembleSource(GetConfiguration(search, configurations[k]),
                                   kernels_[k].name),
                    kernels_[k].name, "verify")
  /\ hist' = [hist EXCEPT !.iter = Append(@, "get")]
  /\ UNCHANGED << settings, configurations, call, k, p, tuning_result,
                  tuning_results_, reference_outputs_, dev, mp >>

\* DownloadAndCompare (lines 393-414) on abstract contents: the L2 norm of two
\* buffers is within the threshold exactly when they hold the same value.
DownloadAndCompare(d, refs, i) == refs[i].data = d[i]

\* VerifyOutput if it compared the output buffers whether or not a reference
\* is configured.
VerifyOutput_AlwaysCompares(d, refs) ==
  IF Len(refs) < NumOutputs THEN BOOLEAN
  ELSE { \A i \in 1..NumOutputs : DownloadAndCompare(d, refs, i) }

\* VerifyOutput (lines 371-389): the statuses it can return.  Reading a snapshot
\* entry that was never stored is an out-of-bounds read: any outcome.
VerifyOutput(d, refs) ==
  IF ~has_reference_ THEN {TRUE}
  ELSE IF Len(refs) < NumOutputs THEN BOOLEAN
  ELSE { \A i \in 1..NumOutputs : DownloadAndCompare(d, refs, i) }

\* The output buffers VerifyOutput reads back (lines 373-387, Read at line 398).
VerifyReads == IF has_reference_ THEN NumOutputs ELSE 0

\* The snapshot after VerifyOutput: DownloadAndCompare (lines 392-414) downloads
\* into a buffer of its own and only reads reference_outputs_[i] (line 402).
ReferenceAfterCompare(refs) == refs

\* Lines 142 and 188 (and 533): tuning_result.status = VerifyOutput().  With a
\* reference every output buffer is read back; a Read that raises leaves the call.
VerifyStep(next) ==
  \/ /\ VerifyReads > 0
     /\ Abort
     /\ UNCHANGED << tuning_result, reference_outputs_ >>
  \/ \E status \in VerifyOutput(dev, reference_outputs_) :
       /\ tuning_result' = [tuning_result EXCEPT !.status = status]
       /\ reference_outputs_' = ReferenceAfterCompare(reference_outputs_)
       /\ pc' = next
       /\ hist' = [hist EXCEPT
                     !.missing_read = @ \/ (has_reference_ /\ Len(reference_outputs_) < NumOutputs),
                     !.downloads = VerifyReads,
                     !.iter = IF pc = "verify" THEN Append(@, "verify") ELSE @]
       /\ UNCHANGED call

TuneVerifyOutput ==
  /\ call = "Tune"
  /\ pc \in {"verify", "verify_np"}
  /\ VerifyStep(IF pc = "verify" THEN "push" ELSE "append_np")
  /\ UNCHANGED << settings, configurations, ret, k, p, search, permutation, rk,
                  tuning_results_, dev, mp >>

\* Feedback if a result that failed verification were reported as a failure.
Feedback_SentinelOnMismatch(result) == IF result.status THEN result.time ELSE FloatMax

\* The feedback value of line 191.
Feedback(result) == result.time

\* TunePushExecutionTime without the call of line 191: the searcher gets no
\* feedback before it calculates the next index.
TunePushExecutionTime_Skipped ==
  /\ call = "Tune"
  /\ pc = "push"
  /\ pc' = "calc"
  /\ UNCHANGED << settings, configurations, call, ret, k, p, search, permutation, rk,
                  tuning_result, tuning_results_, reference_outputs_, dev, mp, hist >>

\* Line 191: search->PushExecutionTime(tuning_result.time).
TunePushExecutionTime ==
  /\ call = "Tune"
  /\ pc = "push"
  /\ search' = [search EXCEPT !.pushes = @ + 1, !.pushed = Feedback(tuning_result)]
  /\ pc' = "calc"
  /\ hist' = [hist EXCEPT !.iter = Append(@, "push")]
  /\ UNCHANGED << settings, configurations, call, ret, k, p, permutation, rk,
                  tuning_result, tuning_results_, reference_outputs_, dev, mp >>

\* Line 192: search->CalculateNextIndex() (FullSearch: the next index).
TuneCalculateNextIndex ==
  /\ call = "Tune"
  /\ pc = "calc"
  /\ search' = [search EXCEPT !.calcs = @ + 1, !.index = @ + 1]
  /\ pc' = "append"
  /\ hist' = [hist EXCEPT !.iter = Append(@, "calc")]
  /\ UNCHANGED << settings, configurations, call, ret, k, p, permutation, rk,
                  tuning_result, tuning_results_, reference_outputs_, dev, mp >>

\* The branch taken at lines 197-204 (and 538-545) for a result.
PrintBranch(result) ==
  IF result.time = DoubleMax THEN "failure"
  ELSE IF ~result.status THEN "warning"
  ELSE "none"

\* The local result after lines 197-201: the failure branch rewrites its time.
AfterPrint(result) ==
  IF PrintBranch(result) = "failure" THEN [result EXCEPT !.time = FloatMax] ELSE result

Stored_ConfigurationUnset(result, config) == result

\* Stored if the time of a failed result were rewritten for printing before
\* the result is appended.
Stored_RewrittenForPrinting(result, config) ==
  [result EXCEPT !.configuration = config, !.time = IF @ = FloatMax THEN 0 ELSE @]

\* The result that lines 195-196 (and 536-537) append.
Stored(result, config) == [result EXCEPT !.configuration = config]

\* Lines 194-205: stores the configuration in the result, appends it to the
\* results and prints a failure or a warning; the loop counter advances.
TuneStoreResult ==
  /\ call = "Tune"
  /\ pc = "append"
  /\ tuning_results_' = Append(tuning_results_, Stored(tuning_result, permutation))
  /\ tuning_result' = AfterPrint(Stored(tuning_result, permutation))
  /\ p' = p + 1
  /\ pc' = "loop"
  /\ hist' = [hist EXCEPT !.iter = << >>, !.appended = @ + 1, !.recorded = TRUE,
                          !.printed = PrintBranch(Stored(tuning_result, permutation))]
  /\ rk' = NoRun
  /\ UNCHANGED << settings, configurations, call, ret, k, search, permutation,
                  reference_outputs_, dev, mp >>

\* Lines 144-145: the result of a kernel without parameters is appended.
TuneStoreResultNoParameters ==
  /\ call = "Tune"
  /\ pc = "append_np"
  /\ tuning_results_' = Append(tuning_results_, tuning_result)
  /\ k' = k + 1
  /\ pc' = "kernel"
  /\ rk' = NoRun
  /\ hist' = [hist EXCEPT !.appended = @ + 1, !.recorded = TRUE]
  /\ UNCHANGED << settings, configurations, call, ret, p, search, permutation,
                  tuning_result, reference_outputs_, dev, mp >>

\* ------------------------------------------------------- ModelPrediction
\* The local validation_fraction of line 442 (which shadows the parameter), in
\* percent.
kValidationPercent == 20

\* Lines 442-444: the split of the results into training and validation samples.
ValidationSamples(n, validation_fraction) == (n * kValidationPercent) \div 100
TrainingSamples(n, validation_fraction) == n - ValidationSamples(n, validation_fraction)

\* Lines 445-463 read tuning_results_[0] and, of every result, as many settings
\* as tuning_results_[0] has: defined only if those exist.
SamplesReadable ==
  /\ tuning_results_ # << >>
  /\ \A s \in 1..Len(tuning_results_) :
       Len(tuning_results_[s].configuration) >= Len(tuning_results_[1].configuration)

\* Lines 489-510: one prediction per configuration, in configuration order, then
\* sorted by predicted time.  The predictions of the trained model are any
\* times; std::sort may order equal predictions either way.
ModelResults(configs) ==
  { mr \in [ 1..Len(configs) -> (0..(Len(configs) - 1)) \X (1..MaxConfigs) ] :
      /\ \A i, j \in 1..Len(configs) : i # j => mr[i][1] # mr[j][1]
      /\ \A i, j \in 1..Len(configs) : i < j => mr[i][2] <= mr[j][2] }

\* The number of results ModelPrediction appends for the kernels from index i on.
RECURSIVE ResultsOfModelPrediction(_, _)
ResultsOfModelPrediction(i, top_x) ==
  IF i > Len(kernels_) THEN 0
  ELSE Min(top_x, Len(configurations[i])) + ResultsOfModelPrediction(i + 1, top_x)

\* ModelPrediction(model_type, validation_fraction, test_top_x_configurations)
\* is called (line 435).
ModelPredictionBegin ==
  /\ call = "idle"
  /\ \E model_type \in {"kLinearRegression", "other"}, validation_fraction \in {20, 50},
        top_x \in 0..MaxTopX :
       /\ Len(tuning_results_) + ResultsOfModelPrediction(1, top_x) <= Capacity
       /\ mp' = [NoModel EXCEPT !.top_x = top_x, !.model_type = model_type,
                                !.validation_fraction = validation_fraction]
  /\ call' = "ModelPrediction"
  /\ pc' = "mp_kernel"
  /\ k' = 1
  /\ p' = 0
  /\ search' = NoSearch
  /\ permutation' = << >>
  /\ hist' = [hist EXCEPT !.iter = << >>, !.appended = 0, !.printed = "none"]
  /\ UNCHANGED << settings, configurations, ret, rk, tuning_result, tuning_results_,
                  reference_outputs_, dev >>

\* Line 439: the kernel loop is over, ModelPrediction returns.
ModelPredictionReturn ==
  /\ call = "ModelPrediction"
  /\ pc = "mp_kernel"
  /\ k > Len(kernels_)
  /\ call' = "idle"
  /\ pc' = "idle"
  /\ mp' = NoModel
  /\ UNCHANGED << settings, configurations, ret, k, p, search, permutation, rk,
                  tuning_result, tuning_results_, reference_outputs_, dev, hist >>

\* Lines 441-510: splits the results, trains and validates the model, predicts
\* every configuration of the kernel and sorts the predictions.  An unknown
\* model raises (line 486).  Reading samples that do not exist is undefined:
\* the process dies or goes on with whatever it read.
ModelPredictionTrain ==
  /\ call = "ModelPrediction"
  /\ pc = "mp_kernel"
  /\ k <= Len(kernels_)
  /\ \/ /\ ~SamplesReadable
        /\ call' = "aborted"
        /\ pc' = "crashed"
        /\ hist' = [hist EXCEPT !.stopped_in = pc]
        /\ UNCHANGED mp
     \/ /\ mp.model_type # "kLinearRegression"
        /\ Abort
        /\ UNCHANGED mp
     \/ /\ mp.model_type = "kLinearRegression"
        /\ \E mr \in ModelResults(configurations[k]) :
             mp' = [mp EXCEPT
                      !.i = 0, !.model_results = mr,
                      !.validation_samples =
                        ValidationSamples(Len(tuning_results_), mp.validation_fraction),
                      !.training_samples =
                        TrainingSamples(Len(tuning_results_), mp.validation_fraction)]
        /\ pc' = "mp_loop"
        /\ UNCHANGED << call, hist >>
  /\ UNCHANGED << settings, configurations, ret, k, p, search, permutation, rk,
                  tuning_result, tuning_results_, reference_outputs_, dev >>

\* The loop condition of line 514.
TestContinues(i, top_x, model_results) == i < top_x /\ i < Len(model_results)

\* Line 514 is false: the tests of this kernel are over.
ModelPredictionLoopExit ==
  /\ call = "ModelPrediction"
  /\ pc = "mp_loop"
  /\ ~TestContinues(mp.i, mp.top_x, mp.model_results)
  /\ k' = k + 1
  /\ pc' = "mp_kernel"
  /\ mp' = [mp EXCEPT !.i = 0, !.model_results = << >>]
  /\ UNCHANGED << settings, configurations, call, ret, p, search, permutation, rk,
                  tuning_result, tuning_results_, reference_outputs_, dev, hist >>

\* Lines 514-532: takes the next best predicted configuration, assembles the
\* source, computes the ranges and calls RunKernel.
ModelPredictionTest ==
  /\ call = "ModelPrediction"
  /\ pc = "mp_loop"
  /\ TestContinues(mp.i, mp.top_x, mp.model_results)
  /\ p' = mp.model_results[mp.i + 1][1]
  /\ permutation' = configurations[k][mp.model_results[mp.i + 1][1] + 1]
  /\ EnterRunKernel(AssembleSource(configurations[k][mp.model_results[mp.i + 1][1] + 1],
                                   kernels_[k].name),
                    kernels_[k].name, "mp_verify")
  /\ UNCHANGED << settings, configurations, call, k, search, tuning_result,
                  tuning_results_, reference_outputs_, dev, mp, hist >>

\* Line 533: tuning_result.status = VerifyOutput().
ModelPredictionVerifyOutput ==
  /\ call = "ModelPrediction"
  /\ pc = "mp_verify"
  /\ VerifyStep("mp_append")
  /\ UNCHANGED << settings, configurations, ret, k, p, search, permutation, rk,
                  tuning_results_, dev, mp >>

\* Lines 535-546: stores the configuration in the result, appends it to the
\* results and prints a failure or a warning.
ModelPredictionStoreResult ==
  /\ call = "ModelPrediction"
  /\ pc = "mp_append"
  /\ tuning_results_' = Append(tuning_results_, Stored(tuning_result, permutation))
  /\ tuning_result' = AfterPrint(Stored(tuning_result, permutation))
  /\ mp' = [mp EXCEPT !.i = @ + 1]
  /\ pc' = "mp_loop"
  /\ rk' = NoRun
  /\ hist' = [hist EXCEPT !.appended = @ + 1, !.recorded = TRUE,
                          !.printed = PrintBranch(Stored(tuning_result, permutation))]
  /\ UNCHANGED << settings, configurations, call, ret, k, p, search, permutation,
                  reference_outputs_, dev >>

ModelPrediction ==
  \/ ModelPredictionBegin
  \/ ModelPredictionReturn
  \/ ModelPredictionTrain
  \/ ModelPredictionLoopExit
  \/ ModelPredictionTest
  \/ ModelPredictionVerifyOutput
  \/ ModelPredictionStoreResult

RunKernel ==
  \/ RunKernelBuild
  \/ RunKernelReset
  \/ RunKernelBind
  \/ RunKernelLocalMem
  \/ RunKernelLaunch
  \/ RunKernelTiming
  \/ RunKernelReturn

Tune ==
  \/ TuneBegin
  \/ TuneStoreReferenceOutput
  \/ TuneReturn
  \/ TuneKernelNoParameters
  \/ TuneSetConfigurations
  \/ TuneLoopExit
  \/ TuneGetConfiguration
  \/ TuneVerifyOutput
  \/ TunePushExecutionTime
  \/ TuneCalculateNextIndex
  \/ TuneStoreResult
  \/ TuneStoreResultNoParameters

Next == RunKernel \/ Tune \/ ModelPrediction

Spec == Init /\ [][Next]_vars

\* ---------------------------------------------------------------- Properties
\* The steps of Tune in which a candidate (of a kernel with or without tuning
\* parameters) is being processed.
CandidateSteps ==
  RunKernelPcs \cup {"verify", "verify_np", "push", "calc", "append", "append_np"}

\* C1: during Tune no exception raised for a candidate leaves Tune: whatever
\* step of the candidate raises, from compiling it to verifying its output,
\* Tune is not left by the exception and goes on with the remaining iterations.
C1_ExceptionsAbsorbed ==
  ~(call = "aborted" /\ hist.stopped_in \in CandidateSteps)

\* The search loop of a kernel with tuning parameters is over: left by its
\* loop condition, or by an exception.
SearchLoopOver ==
  \/ call = "Tune" /\ pc = "kernel" /\ k > 1 /\ kernels_[k - 1].nparams > 0
  \/ call = "aborted" /\ hist.stopped_in \in RunKernelPcs \cup {"verify", "push", "calc", "append"}

\* C2: when the search of a kernel with tuning parameters is over, the searcher
\* has had exactly N = NumConfigurations() calls of GetConfiguration, of
\* PushExecutionTime and of CalculateNextIndex, and exactly N results were
\* appended for the kernel.
C2_ExactlyNIterations ==
  SearchLoopOver =>
    /\ search.gets = NumConfigurations(search)
    /\ search.pushes = NumConfigurations(search)
    /\ search.calcs = NumConfigurations(search)
    /\ hist.appended = NumConfigurations(search)

\* The part of C2 that the code does keep: a search loop left by its loop
\* condition has made N calls of each kind and appended N results.
SearchLoopExitCounts ==
  (call = "Tune" /\ pc = "kernel" /\ k > 1 /\ kernels_[k - 1].nparams > 0) =>
    /\ search.gets = NumConfigurations(search)
    /\ search.pushes = NumConfigurations(search)
    /\ search.calcs = NumConfigurations(search)
    /\ hist.appended = NumConfigurations(search)

\* The steps of one iteration of the search loop, in the order of lines 174-192.
IterationOrder == << "get", "run", "verify", "push", "calc" >>

\* C3: within an iteration the searcher is asked for a configuration, the
\* candidate is run and verified, its time is pushed and the next index is
\* calculated, in this order; the next GetConfiguration comes only after the
\* feedback of the previous iteration was pushed and the index advanced.
C3_FeedbackBeforeNextGet ==
  /\ hist.iter = SubSeq(IterationOrder, 1, Len(hist.iter))
  /\ (call = "Tune" /\ pc = "loop") =>
       /\ hist.iter = << >>
       /\ search.pushes = search.gets
       /\ search.calcs = search.gets
  /\ search.gets - search.pushes \in {0, 1}
  /\ search.gets - search.calcs \in {0, 1}
  /\ search.calcs <= search.pushes

\* C3's case: a second configuration is fetched, after the feedback of the first.
C3_Witness ==
  /\ call = "Tune"
  /\ search.gets = 2
  /\ search.pushes = 1
  /\ search.calcs = 1
  /\ hist.iter = << "get" >>

\* A candidate is inside RunKernel or between RunKernel and its store.
CandidateActive == rk.name \notin {"", "reference"}

VerifySteps == {"verify", "verify_np", "mp_verify"}

\* C5: whenever a comparison reads the snapshot of output buffer i, from Tune
\* or from ModelPrediction, the snapshot is stored and has an entry for i of
\* the type and length of output argument i; no comparison ever read a missing
\* entry.
C5_SnapshotPresentWhenCompared ==
  /\ ~hist.missing_read
  /\ (has_reference_ /\ pc \in VerifySteps) =>
       /\ Len(reference_outputs_) = NumOutputs
       /\ \A i \in 1..NumOutputs :
            /\ reference_outputs_[i].type = arguments_output_[i].type
            /\ reference_outputs_[i].size = arguments_output_[i].size

\* C5's case: ModelPrediction is about to compare the outputs of a candidate
\* with the snapshot.
C5_Witness ==
  /\ call = "ModelPrediction"
  /\ has_reference_
  /\ pc = "mp_verify"
  /\ rk.launches > 0

\* Every output buffer holds zeros.
OutputsZero == \A i \in 1..NumOutputs : dev[i] = "zero"

BuildFailed ==
  /\ CandidateActive
  /\ ret = "verify"
  /\ rk.build_status \in {"kError", "kInvalid"}

\* C7: for a candidate whose build reports a compile error or an invalid
\* binary, no output buffer is reset, no argument is bound and nothing is
\* launched; its result carries the failure sentinel, the sentinel is what the
\* searcher is given, and the search goes on to the next iteration.
C7_BuildFailureRecorded ==
  BuildFailed =>
    /\ rk.resets = 0 /\ rk.binds = 0 /\ rk.launches = 0
    /\ (pc \in {"return", "verify", "push", "calc", "append"} => tuning_result.time = FloatMax)
    /\ (pc \in {"calc", "append"} => search.pushed = FloatMax)
    /\ call # "aborted"

\* The part of C7 that the code does keep: nothing is reset, bound or launched,
\* and the sentinel is the time of the result and the value pushed.
BuildFailureSentinel ==
  BuildFailed =>
    /\ rk.resets = 0 /\ rk.binds = 0 /\ rk.launches = 0
    /\ (pc \in {"return", "verify", "push", "calc", "append"} => tuning_result.time = FloatMax)
    /\ (pc \in {"calc", "append"} => search.pushed = FloatMax)

\* C8: a stored result that carries the failure sentinel never has status Ok,
\* with or without a reference and whatever the output buffers contain.
C8_FailedNeverOk ==
  \A i \in 1..Len(tuning_results_) :
    tuning_results_[i].time = FloatMax => ~tuning_results_[i].status

\* The output buffers differ from the reference snapshot.
OutputDiffers ==
  /\ has_reference_
  /\ Len(reference_outputs_) = NumOutputs
  /\ \E i \in 1..NumOutputs : reference_outputs_[i].data # dev[i]

\* The steps between the verification of a candidate and its store, and the
\* steps right after its store (the output buffers are still as verified).
VerifiedSteps == {"push", "calc", "append", "append_np", "mp_append"}
StoredSteps == {"loop", "kernel", "mp_loop"}

\* The last result of the result log.
LastResult == tuning_results_[Len(tuning_results_)]

\* C9: a candidate that ran to completion but whose output differs from the
\* reference gets a non-Ok status and keeps its measured time; it is stored in
\* the result log like that, and the searcher is given the measured time, never
\* the failure sentinel.
C9_MismatchKeepsTime ==
  (hist.ran /\ OutputDiffers) =>
    /\ (pc \in VerifiedSteps /\ ~hist.recorded) =>
         /\ ~tuning_result.status
         /\ tuning_result.time = hist.least
         /\ tuning_result.time # FloatMax
    /\ (pc \in {"calc", "append"} /\ ~hist.recorded) => search.pushed = hist.least
    /\ (pc \in StoredSteps /\ hist.recorded) =>
         /\ ~LastResult.status
         /\ LastResult.time = hist.least
         /\ LastResult.time # FloatMax

\* C9's case: the result of a candidate that ran and left an output other than
\* the reference's has just been stored by Tune.
C9_Witness ==
  /\ call = "Tune"
  /\ pc = "loop"
  /\ hist.ran
  /\ hist.recorded
  /\ OutputDiffers
  /\ search.pushes > 0

\* C10: the time of the result of a candidate that ran to completion is the
\* least of the elapsed times its R events reported; the same time is stored
\* in the result log and given to the searcher.
C10_TimeIsLeastElapsed ==
  /\ (pc = "return" /\ rk.timed) =>
       /\ Len(rk.events) = kNumRuns
       /\ tuning_result.time = Least(rk.events)
  /\ (hist.ran /\ ~hist.recorded /\ pc \in VerifySteps \cup VerifiedSteps) =>
       tuning_result.time = hist.least
  /\ (hist.ran /\ ~hist.recorded /\ pc \in {"calc", "append"}) => search.pushed = hist.least
  /\ (hist.ran /\ hist.recorded /\ tuning_results_ # << >>) => LastResult.time = hist.least

\* C10's case: RunKernel returns the result of a candidate whose last launch
\* was not its fastest.
C10_Witness ==
  /\ CandidateActive
  /\ pc = "return"
  /\ rk.timed
  /\ rk.events = << 1, 2 >>
  /\ tuning_result.time = 1

\* ------------------------------------------- verification on element values
\* The comparison of DownloadAndCompare on the elements of the buffers.  An
\* element is a finite number, a NaN or an infinity; a kInt buffer holds finite
\* numbers only.  The arithmetic is that of IEEE doubles on these values.
Finite(n) == [kind |-> "finite", value |-> n]
NaN == [kind |-> "nan", value |-> 0]
PlusInf == [kind |-> "inf", value |-> 0]
MinusInf == [kind |-> "ninf", value |-> 0]
Infinite(x) == x.kind \in {"inf", "ninf"}

FiniteValues == { Finite(n) : n \in 0..MaxValue }
FloatValues == FiniteValues \cup {NaN, PlusInf, MinusInf}

ElementValues(type) == IF type = "kInt" THEN FiniteValues ELSE FloatValues

\* fabs(static_cast<double>(reference) - static_cast<double>(result)), lines 417-420.
AbsoluteDifference(reference, result) ==
  IF reference.kind = "nan" \/ result.kind = "nan" THEN NaN
  ELSE IF Infinite(reference) /\ Infinite(result)
    THEN IF reference.kind = result.kind THEN NaN ELSE PlusInf
  ELSE IF Infinite(reference) \/ Infinite(result) THEN PlusInf
  ELSE IF reference.value < result.value THEN Finite(result.value - reference.value)
  ELSE Finite(reference.value - result.value)

\* l2_norm += difference (line 404); a difference is never negative.
Accumulate(l2_norm, difference) ==
  IF l2_norm.kind = "nan" \/ difference.kind = "nan" THEN NaN
  ELSE IF l2_norm.kind = "inf" \/ difference.kind = "inf" THEN PlusInf
  ELSE Finite(l2_norm.value + difference.value)

\* The loop of lines 403-405 over the first j elements.
RECURSIVE L2Norm(_, _, _)
L2Norm(reference_output, host_buffer, j) ==
  IF j = 0 THEN Finite(0)
  ELSE Accumulate(L2Norm(reference_output, host_buffer, j - 1),
                  AbsoluteDifference(reference_output[j], host_buffer[j]))

\* l2_norm > kMaxL2Norm on doubles: false for a NaN.
GreaterThan(l2_norm, limit) ==
  \/ l2_norm.kind = "inf"
  \/ l2_norm.kind = "finite" /\ l2_norm.value > limit

\* ResultsDiffer without the std::isnan test.
ResultsDiffer_NoNaNTest(l2_norm) == GreaterThan(l2_norm, kMaxL2Norm)

\* The condition of line 409: std::isnan(l2_norm) || l2_norm > kMaxL2Norm.
ResultsDiffer(l2_norm) == l2_norm.kind = "nan" \/ GreaterThan(l2_norm, kMaxL2Norm)

\* DownloadAndCompare (lines 392-414) on element values.
DownloadAndCompareL2(d, refs, i) ==
  ~ResultsDiffer(L2Norm(refs[i].data, d[i], arguments_output_[i].size))

\* The loop of VerifyOutput (lines 372-388): status &= DownloadAndCompare, for
\* the first i output buffers.
RECURSIVE VerifyOutputL2(_, _, _)
VerifyOutputL2(d, refs, i) ==
  IF ~has_reference_ \/ i = 0 THEN TRUE
  ELSE VerifyOutputL2(d, refs, i - 1) /\ DownloadAndCompareL2(d, refs, i)

\* The contents an output buffer of each output argument can have.
BufferContents ==
  { d \in [ 1..NumOutputs -> UNION { [ 1..arguments_output_[i].size -> FloatValues ] :
                                       i \in 1..NumOutputs } ] :
      \A i \in 1..NumOutputs :
        /\ DOMAIN d[i] = 1..arguments_output_[i].size
        /\ \A j \in DOMAIN d[i] : d[i][j] \in ElementValues(arguments_output_[i].type) }

\* A candidate has run and Tune is about to verify its output: the snapshot and
\* the output buffers hold any element values.
VerifyInit ==
  /\ has_reference_ \in BOOLEAN
  /\ kernels_ = << Kernel("A", 2, 1) >>
  /\ kNumRuns = 1
  /\ configurations = << SetConfigurations(Kernel("A", 2, 1)) >>
  /\ call = "Tune"
  /\ pc = "verify"
  /\ ret = "verify"
  /\ k = 1
  /\ p = 0
  /\ search = [NewSearch(SetConfigurations(Kernel("A", 2, 1))) EXCEPT !.gets = 1]
  /\ permutation = SetConfigurations(Kernel("A", 2, 1))[1]
  /\ rk = [NoRun EXCEPT !.name = "A", !.cl_status = "CL_SUCCESS", !.build_status = "kSuccess", !.resets = 1,
                        !.binds = 1, !.launches = 1, !.timed = TRUE]
  /\ tuning_result = [kernel_name |-> "A", time |-> 1, threads |-> 1, status |-> FALSE,
                      configuration |-> << >>]
  /\ tuning_results_ = << >>
  /\ \E d \in BufferContents : dev = d
  /\ IF has_reference_
       THEN \E r \in BufferContents : reference_outputs_ = Snapshot(r, NumOutputs)
       ELSE reference_outputs_ = << >>
  /\ mp = NoModel
  /\ hist = [NoHist EXCEPT !.ref_runs = IF has_reference_ THEN 1 ELSE 0,
                           !.ref_stored = has_reference_, !.iter = << "get", "run" >>,
                           !.ran = TRUE, !.least = 1]

\* Line 188 on element values: tuning_result.status = VerifyOutput().
VerifyOutputOnValues ==
  /\ call = "Tune"
  /\ pc = "verify"
  /\ tuning_result' = [tuning_result EXCEPT
                         !.status = VerifyOutputL2(dev, reference_outputs_, NumOutputs)]
  /\ pc' = "push"
  /\ UNCHANGED << settings, configurations, call, ret, k, p, search, permutation, rk,
                  tuning_results_, reference_outputs_, dev, mp, hist >>

VerifyNext == VerifyOutputOnValues

VerifySpec == VerifyInit /\ [][VerifyNext]_vars

\* The sum over the first j elements of the absolute differences of two
\* buffers of finite elements, as a number.
RECURSIVE SumOfDifferences(_, _, _)
SumOfDifferences(a, b, j) ==
  IF j = 0 THEN 0
  ELSE SumOfDifferences(a, b, j - 1)
       + (IF a[j].value < b[j].value THEN b[j].value - a[j].value
          ELSE a[j].value - b[j].value)

\* The sum of the absolute differences of output buffer i to its snapshot is
\* a number (neither NaN nor infinite) and at most the threshold.  A NaN or an
\* infinite element on either side makes the sum NaN or infinite.
WithinThreshold(i) ==
  /\ \A j \in 1..arguments_output_[i].size :
       reference_outputs_[i].data[j].kind = "finite" /\ dev[i][j].kind = "finite"
  /\ SumOfDifferences(reference_outputs_[i].data, dev[i], arguments_output_[i].size)
       <= kMaxL2Norm

\* C11: with a reference, the verdict of a candidate is Ok exactly when for
\* every output buffer the sum of the absolute differences to the snapshot is
\* not NaN, is finite and is at most the threshold; one buffer over the
\* threshold or with a NaN sum makes the verdict Mismatch.
C11_OkIffEveryBufferWithinThreshold ==
  (has_reference_ /\ pc = "push") =>
    (tuning_result.status <=> \A i \in 1..NumOutputs : WithinThreshold(i))

\* C11's case: a single output buffer has a NaN sum, the other equals its
\* snapshot, and the candidate is verified as Mismatch.
C11_Witness ==
  /\ has_reference_
  /\ pc = "push"
  /\ ~tuning_result.status
  /\ L2Norm(reference_outputs_[1].data, dev[1], arguments_output_[1].size) = NaN
  /\ reference_outputs_[2].data = dev[2]

\* C12: without a reference kernel verification is skipped silently: no output
\* buffer is read back or compared, no exception leaves the verification, the
\* snapshot stays empty and no candidate is marked Mismatch.
C12_NoReferenceNoVerification ==
  ~has_reference_ =>
    /\ hist.downloads = 0
    /\ ~(call = "aborted" /\ hist.stopped_in \in VerifySteps)
    /\ reference_outputs_ = << >>
    /\ (pc \in VerifiedSteps => tuning_result.status)
    /\ \A i \in 1..Len(tuning_results_) : tuning_results_[i].status

\* C12's case: without a reference, a candidate that ran to completion and
\* left an output other than the reference result is stored as Ok.
C12_Witness ==
  /\ ~has_reference_
  /\ hist.recorded
  /\ hist.ran
  /\ pc = "loop"
  /\ \E i \in 1..NumOutputs : dev[i] = "b"
  /\ LastResult.status

\* ------------------------------------------------- launches with their ranges
\* Device::MaxWorkItemSizes() (clpp11.h 172-174), per axis.
MaxWorkItemSizes == << 2, 2 >>

\* The global and local ranges RunKernel reads at lines 277-278, as
\* KernelInfo::ComputeRanges left them: any sizes on two axes.
LocalRanges == [ 1..2 -> 1..MaxLocal ]
GlobalRanges == [ 1..2 -> {2, 3} ]

\* The product of the local sizes (the work-group size).
WorkGroupSize(local) == local[1] * local[2]

\* What clEnqueueNDRangeKernel requires of the ranges: each local size within
\* the device's limit of its axis, the work-group within the device's limit,
\* each global size a multiple of the local size.
RangesValid(global, local) ==
  /\ \A i \in 1..2 : local[i] <= MaxWorkItemSizes[i]
  /\ WorkGroupSize(local) <= MaxWorkGroupSize
  /\ \A i \in 1..2 : global[i] % local[i] = 0

\* The status of clEnqueueNDRangeKernel in Kernel::Launch (clpp11.h 595-600):
\* ranges the device cannot run are refused; valid ranges are enqueued, unless
\* the device is out of resources.
EnqueueNDRangeKernel(global, local) ==
  IF ~(\A i \in 1..2 : local[i] <= MaxWorkItemSizes[i]) THEN {"CL_INVALID_WORK_ITEM_SIZE"}
  ELSE IF ~RangesValid(global, local) THEN {"CL_INVALID_WORK_GROUP_SIZE"}
  ELSE {"CL_SUCCESS", "CL_OUT_OF_RESOURCES"}

\* A candidate is compiled, its outputs are reset, its arguments bound and its
\* local memory checked: RunKernel is about to launch it with its ranges.
RangesInit ==
  /\ has_reference_ \in BOOLEAN
  /\ kernels_ = << Kernel("A", 2, 1) >>
  /\ kNumRuns = 1
  /\ configurations = << SetConfigurations(Kernel("A", 2, 1)) >>
  /\ call = "Tune"
  /\ pc = "launch"
  /\ ret = "verify"
  /\ k = 1
  /\ p = 0
  /\ search = [NewSearch(SetConfigurations(Kernel("A", 2, 1))) EXCEPT !.gets = 1]
  /\ permutation = SetConfigurations(Kernel("A", 2, 1))[1]
  /\ \E global \in GlobalRanges, local \in LocalRanges :
       rk = [name |-> "A", cl_status |-> "CL_SUCCESS", build_status |-> "kSuccess", events |-> << >>,
             bound |-> AllArguments, local_mem_usage |-> LocalMemSize, resets |-> 1,
             binds |-> 1, launches |-> 0, timed |-> FALSE,
             source |-> AssembleSource(SetConfigurations(Kernel("A", 2, 1))[1], "A"),
             global |-> global, local |-> local]
  /\ tuning_result = NoResult
  /\ tuning_results_ = << >>
  /\ reference_outputs_ =
       IF has_reference_ THEN Snapshot([ i \in 1..NumOutputs |-> "a" ], NumOutputs)
       ELSE << >>
  /\ dev = [ i \in 1..NumOutputs |-> "zero" ]
  /\ mp = NoModel
  /\ hist = [NoHist EXCEPT !.ref_runs = IF has_reference_ THEN 1 ELSE 0,
                           !.ref_bound = IF has_reference_ THEN AllArguments ELSE {},
                           !.ref_stored = has_reference_, !.iter = << "get" >>]

\* Lines 292-296 with the ranges of the launch: Kernel::Launch raises when the
\* enqueue is refused, and nothing runs; an enqueued launch runs the kernel.
RunKernelLaunchRanges ==
  /\ pc = "launch"
  /\ MoreLaunches(Len(rk.events))
  /\ \E cl_status \in EnqueueNDRangeKernel(rk.global, rk.local) :
       IF cl_status # "CL_SUCCESS"
         THEN Catch /\ UNCHANGED << rk, dev >>
         ELSE \E out \in LaunchOutputs(FALSE), time \in ElapsedTimes, finish_ok \in BOOLEAN :
                /\ dev' = out
                /\ rk' = [rk EXCEPT !.events = Append(@, time), !.launches = @ + 1]
                /\ IF finish_ok
                     THEN /\ pc' = IF MoreLaunches(Len(rk.events) + 1) THEN "launch"
                                   ELSE "timing"
                          /\ UNCHANGED tuning_result
                     ELSE Catch
  /\ UNCHANGED << settings, configurations, call, ret, k, p, search, permutation,
                  tuning_results_, reference_outputs_, mp, hist >>

RangesNext ==
  \/ RunKernelLaunchRanges
  \/ RunKernelTiming
  \/ RunKernelReturn
  \/ TuneVerifyOutput
  \/ TunePushExecutionTime
  \/ TuneCalculateNextIndex
  \/ TuneStoreResult

RangesSpec == RangesInit /\ [][RangesNext]_vars

\* The candidate of this launch, with ranges the device cannot run.
RangesRefused == CandidateActive /\ ~RangesValid(rk.global, rk.local)

\* C13: a kernel only runs with ranges within the device limits and with
\* global sizes that are multiples of the local sizes; a candidate with other
\* ranges is not run but becomes a failed candidate: its time is the sentinel,
\* the sentinel is given to the searcher and the search goes on, no exception
\* leaves Tune.
C13_InvalidRangesFailCandidate ==
  /\ (CandidateActive /\ rk.launches > 0) => RangesValid(rk.global, rk.local)
  /\ RangesRefused =>
       /\ (pc \in {"return", "verify", "push", "calc", "append"} =>
             tuning_result.time = FloatMax)
       /\ (pc \in {"calc", "append"} => search.pushed = FloatMax)
       /\ call # "aborted"

\* The part of C13 that the code does keep: ranges the device cannot run are
\* refused at the enqueue, nothing runs and the result carries the sentinel.
RangesRefusedSentinel ==
  /\ (CandidateActive /\ rk.launches > 0) => RangesValid(rk.global, rk.local)
  /\ RangesRefused =>
       /\ (pc \in {"return", "verify", "push", "calc", "append"} =>
             tuning_result.time = FloatMax)
       /\ (pc \in {"calc", "append"} => search.pushed = FloatMax)

\* The compiled kernel of the candidate uses more local memory than the device has.
LocalMemoryOverflow == CandidateActive /\ rk.local_mem_usage > LocalMemSize

\* The steps from the return of RunKernel to the store of its result.
ReturnedSteps == {"return"} \cup VerifySteps \cup VerifiedSteps

\* C14: a candidate whose kernel uses more local memory than the device has is
\* never launched and is recorded as failed with the sentinel time; a usage
\* equal to the size of the local memory passes the check.
C14_LocalMemoryOverflowRecorded ==
  /\ IsLocalMemoryValid(LocalMemSize)
  /\ (CandidateActive /\ pc \in {"launch", "timing"}) => rk.local_mem_usage <= LocalMemSize
  /\ LocalMemoryOverflow =>
       /\ rk.launches = 0
       /\ (pc \in ReturnedSteps => tuning_result.time = FloatMax)
       /\ call # "aborted"

\* The part of C14 that the code does keep: such a candidate is never launched
\* and its result carries the sentinel; a usage equal to the size is launched.
LocalMemoryOverflowSentinel ==
  /\ IsLocalMemoryValid(LocalMemSize)
  /\ (CandidateActive /\ pc \in {"launch", "timing"}) => rk.local_mem_usage <= LocalMemSize
  /\ LocalMemoryOverflow =>
       /\ rk.launches = 0
       /\ (pc \in ReturnedSteps => tuning_result.time = FloatMax)

\* C15: the source compiled for a candidate is one definition per parameter of
\* its configuration, in the order of the configuration and each exactly once,
\* followed by the kernel source; the reference kernel and a kernel without
\* parameters are compiled from their source alone.
C15_SourceIsDefinesThenKernel ==
  /\ (CandidateActive /\ ret \in {"verify", "mp_verify"} /\ pc \in RunKernelPcs) =>
       /\ Len(rk.source) = Len(permutation) + 1
       /\ \A i \in 1..Len(permutation) :
            rk.source[i] = << "#define", permutation[i].name, permutation[i].value >>
       /\ rk.source[Len(permutation) + 1] = << "source", rk.name >>
  /\ (rk.name # "" /\ ret \in {"store", "verify_np"} /\ pc \in RunKernelPcs) =>
       rk.source = << << "source", rk.name >> >>

\* C15's case: the second configuration of a kernel with two parameters is
\* being compiled.
C15_Witness ==
  /\ call = "Tune"
  /\ pc = "build"
  /\ ret = "verify"
  /\ Len(permutation) = 2
  /\ search.gets = 2
  /\ Len(rk.source) = 3

\* Tune is about to return normally: its loop over the kernels is over.
TuneCompletes == call = "Tune" /\ pc = "kernel" /\ k > Len(kernels_)

KernelIndex(name) == CHOOSE i \in 1..Len(kernels_) : kernels_[i].name = name

\* The result's configuration is one of the enumeration of its kernel; a kernel
\* without parameters has the empty configuration only.
FromEnumeration(result) ==
  /\ \E i \in 1..Len(kernels_) : kernels_[i].name = result.kernel_name
  /\ IF kernels_[KernelIndex(result.kernel_name)].nparams = 0
     THEN result.configuration = << >>
     ELSE \E c \in 1..Len(configurations[KernelIndex(result.kernel_name)]) :
            configurations[KernelIndex(result.kernel_name)][c] = result.configuration

\* A step appends a result to tuning_results_.
ResultAppended ==
  /\ Len(tuning_results_') = Len(tuning_results_) + 1
  /\ SubSeq(tuning_results_', 1, Len(tuning_results_)) = tuning_results_

\* C17: every stored result's configuration is a member of the enumeration of
\* its kernel, and it is the configuration whose definitions RunKernel compiled
\* and measured for that result: in Tune the one GetConfiguration returned
\* before CalculateNextIndex, in ModelPrediction the entry at the ranked index.
C17_StoredConfigurationIsTheMeasuredOne ==
  [][ /\ \A s \in 1..Len(tuning_results_') :
           /\ FromEnumeration(tuning_results_[s])'
           /\ s <= Len(tuning_results_) => tuning_results_'[s] = tuning_results_[s]
      /\ ResultAppended =>
           /\ rk.name = LastResult'.kernel_name
           /\ rk.source = AssembleSource(LastResult'.configuration, rk.name)
           /\ call = "Tune" /\ pc = "append" =>
                /\ search.calcs = search.gets
                /\ LastResult'.configuration = configurations[k][search.index]
           /\ call = "ModelPrediction" =>
                LastResult'.configuration =
                  configurations[k][mp.model_results[mp.i + 1][1] + 1] ]_vars

\* ModelPrediction stored the second configuration of the enumeration, which
\* the model ranked first.
C17_Witness ==
  /\ call = "ModelPrediction"
  /\ pc = "mp_loop"
  /\ mp.i = 1
  /\ Len(configurations[k]) = 2
  /\ LastResult.configuration = configurations[k][2]

\* C18: the reference snapshot is written once, right after the reference run,
\* and is read-only thereafter: once stored, no step of any later operation
\* modifies, replaces or frees it.
C18_SnapshotWrittenOnce ==
  [][ reference_outputs_ # << >> => reference_outputs_' = reference_outputs_ ]_vars

\* What the code has: only StoreReferenceOutput, which every Tune call with a
\* reference runs right after its reference run, writes the snapshot; no
\* candidate run, output reset, verification or ModelPrediction step does.
SnapshotWrittenByStoreOnly ==
  [][ reference_outputs_' # reference_outputs_ =>
        /\ call = "Tune" /\ pc = "store"
        /\ rk.name = "reference"
        /\ hist.iter = << >> /\ hist.appended = 0 ]_vars

\* ------------------------------------------------- the command queue
\* The queue is created in order (clpp11.h 347-358: profiling is its only
\* property): its commands run one after the other, the oldest first.  A run
\* starts with whatever an earlier run that failed has left on the queue.
LeftOnQueue == { << >>, << "kernel" >> }

\* The kernel executions of the queue that have not completed.
RECURSIVE InFlight(_)
InFlight(queue) ==
  IF queue = << >> THEN 0
  ELSE (IF Head(queue) = "kernel" THEN 1 ELSE 0) + InFlight(Tail(queue))

\* Finish if it returned without waiting for the commands of the queue.
Finished_WithoutWaiting(queue) == TRUE

\* Queue::Finish (clpp11.h 365-370): clFinish returns with success once every
\* command of the queue has completed.
Finished(queue) == queue = << >>

\* A candidate is compiled, its outputs are reset, its arguments bound and its
\* local memory checked: RunKernel is at the Finish of line 287.
QueueInit ==
  /\ has_reference_ \in BOOLEAN
  /\ kernels_ = << Kernel("A", 2, 1) >>
  /\ kNumRuns \in 1..MaxRuns
  /\ configurations = << SetConfigurations(Kernel("A", 2, 1)) >>
  /\ call = "Tune"
  /\ pc = "finish"
  /\ ret = "verify"
  /\ k = 1
  /\ p = 0
  /\ search = [NewSearch(SetConfigurations(Kernel("A", 2, 1))) EXCEPT !.gets = 1]
  /\ permutation = SetConfigurations(Kernel("A", 2, 1))[1]
  /\ \E queue \in LeftOnQueue :
       rk = [name |-> "A", cl_status |-> "CL_SUCCESS", build_status |-> "kSuccess", events |-> << >>,
             bound |-> AllArguments, local_mem_usage |-> LocalMemSize, resets |-> 1,
             binds |-> 1, launches |-> 0, timed |-> FALSE,
             source |-> AssembleSource(SetConfigurations(Kernel("A", 2, 1))[1], "A"),
             queue |-> queue, reads |-> 0]
  /\ tuning_result = NoResult
  /\ tuning_results_ = << >>
  /\ reference_outputs_ =
       IF has_reference_ THEN Snapshot([ i \in 1..NumOutputs |-> "a" ], NumOutputs)
       ELSE << >>
  /\ dev = [ i \in 1..NumOutputs |-> "zero" ]
  /\ mp = NoModel
  /\ hist = [NoHist EXCEPT !.ref_runs = IF has_reference_ THEN 1 ELSE 0,
                           !.ref_bound = IF has_reference_ THEN AllArguments ELSE {},
                           !.ref_stored = has_reference_, !.iter = << "get" >>]

\* The device completes the oldest command of the queue; a kernel that
\* completes has written the output buffers.
DeviceCompletes ==
  /\ rk.queue # << >>
  /\ rk' = [rk EXCEPT !.queue = Tail(@)]
  /\ IF Head(rk.queue) = "kernel"
       THEN dev' \in LaunchOutputs(FALSE)
       ELSE UNCHANGED dev
  /\ UNCHANGED << settings, configurations, call, pc, ret, k, p, search, permutation,
                  tuning_result, tuning_results_, reference_outputs_, mp, hist >>

\* queue_.Finish() returns, or raises into the catch block of RunKernel.
FinishThen(next) ==
  \/ /\ Finished(rk.queue)
     /\ pc' = next
     /\ UNCHANGED tuning_result
  \/ Catch

\* Line 287: queue_.Finish() before the timed part.
RunKernelFinish ==
  /\ pc = "finish"
  /\ FinishThen("launch")
  /\ UNCHANGED << settings, configurations, call, ret, k, p, search, permutation, rk,
                  tuning_results_, reference_outputs_, dev, mp, hist >>

\* Line 293: Kernel::Launch enqueues launch t, or raises.
RunKernelEnqueue ==
  /\ pc = "launch"
  /\ MoreLaunches(Len(rk.events))
  /\ \/ /\ Catch
        /\ UNCHANGED rk
     \/ \E time \in ElapsedTimes :
          /\ rk' = [rk EXCEPT !.queue = Append(@, "kernel"), !.events = Append(@, time),
                              !.launches = @ + 1]
          /\ pc' = "finish_event"
          /\ UNCHANGED tuning_result
  /\ UNCHANGED << settings, configurations, call, ret, k, p, search, permutation,
                  tuning_results_, reference_outputs_, dev, mp, hist >>

\* Line 294: queue_.Finish(events[t]), which is Finish() (clpp11.h 365-367).
RunKernelFinishEvent ==
  /\ pc = "finish_event"
  /\ FinishThen(IF MoreLaunches(Len(rk.events)) THEN "launch" ELSE "finish_all")
  /\ UNCHANGED << settings, configurations, call, ret, k, p, search, permutation, rk,
                  tuning_results_, reference_outputs_, dev, mp, hist >>

\* Line 296: queue_.Finish() after the launch loop.
RunKernelFinishAll ==
  /\ pc = "finish_all"
  /\ FinishThen("timing")
  /\ UNCHANGED << settings, configurations, call, ret, k, p, search, permutation, rk,
                  tuning_results_, reference_outputs_, dev, mp, hist >>

\* VerifyOutput (lines 371-389) on the queue: without a reference it returns
\* true at once; with one, Buffer::Read (clpp11.h 472-476) enqueues the read of
\* the next output buffer, and after the last one the verdict is returned.
VerifyReadAsync ==
  /\ call = "Tune"
  /\ pc = "verify"
  /\ IF rk.reads < VerifyReads
       THEN \/ /\ rk' = [rk EXCEPT !.queue = Append(@, "read")]
               /\ pc' = "read_finish"
               /\ UNCHANGED << call, tuning_result, hist >>
            \/ /\ Abort
               /\ UNCHANGED << rk, tuning_result >>
       ELSE /\ \E status \in VerifyOutput(dev, reference_outputs_) :
                 tuning_result' = [tuning_result EXCEPT !.status = status]
            /\ pc' = "push"
            /\ hist' = [hist EXCEPT !.downloads = VerifyReads, !.iter = Append(@, "verify")]
            /\ UNCHANGED << call, rk >>
  /\ UNCHANGED << settings, configurations, ret, k, p, search, permutation,
                  tuning_results_, reference_outputs_, dev, mp >>

\* Buffer::Read (clpp11.h 475): queue.Finish() after the read was enqueued; an
\* error leaves Tune.
VerifyReadFinish ==
  /\ call = "Tune"
  /\ pc = "read_finish"
  /\ \/ /\ Finished(rk.queue)
        /\ rk' = [rk EXCEPT !.reads = @ + 1]
        /\ pc' = "verify"
        /\ UNCHANGED << call, hist >>
     \/ /\ Abort
        /\ UNCHANGED rk
  /\ UNCHANGED << settings, configurations, ret, k, p, search, permutation,
                  tuning_result, tuning_results_, reference_outputs_, dev, mp >>

QueueNext ==
  \/ DeviceCompletes
  \/ RunKernelFinish
  \/ RunKernelEnqueue
  \/ RunKernelFinishEvent
  \/ RunKernelFinishAll
  \/ RunKernelTiming
  \/ RunKernelReturn
  \/ VerifyReadAsync
  \/ VerifyReadFinish

QueueSpec == QueueInit /\ [][QueueNext]_vars

\* C19: measurements are serialized on the queue: a launch is enqueued only
\* when no earlier launch is still running (the queue is drained before the
\* first launch and launch t has completed before launch t+1 is enqueued), the
\* queue is drained before any timing is read, the download of an output for
\* verification starts only after every launch of the candidate has completed,
\* and at most one kernel execution is in flight at any time.
C19_MeasurementsSerialized ==
  /\ InFlight(rk.queue) <= 1
  /\ pc = "launch" => rk.queue = << >>
  /\ pc \in {"timing", "return"} /\ rk.timed => rk.queue = << >>
  /\ pc = "timing" => rk.queue = << >> /\ rk.launches = kNumRuns
  /\ (rk.queue # << >> /\ Head(rk.queue) = "read") => InFlight(rk.queue) = 0
  /\ (pc = "read_finish" /\ rk.timed) => rk.queue \in {<< >>, << "read" >>}

\* A candidate with two launches was timed and the download of its outputs is
\* on the queue.
C19_Witness ==
  /\ pc = "read_finish"
  /\ rk.timed
  /\ rk.launches = 2
  /\ rk.queue = << "read" >>

\* ------------------------------------------- the split of ModelPrediction
\* ModelPrediction is called with n results in the log, the s-th measured
\* stored with time s, and any validation_fraction (in percent).
SplitInit ==
  /\ has_reference_ = FALSE
  /\ kernels_ = << Kernel("A", 2, 1) >>
  /\ kNumRuns = 1
  /\ configurations = << SetConfigurations(Kernel("A", 2, 1)) >>
  /\ call = "ModelPrediction"
  /\ pc = "mp_split"
  /\ ret = "none"
  /\ k = 1
  /\ p = 0
  /\ search = NoSearch
  /\ permutation = << >>
  /\ rk = NoRun
  /\ tuning_result = NoResult
  /\ \E n \in 1..MaxSamples :
       tuning_results_ =
         [ s \in 1..n |-> [kernel_name |-> "A", time |-> s, threads |-> 1, status |-> TRUE,
                           configuration |-> SetConfigurations(Kernel("A", 2, 1))[1]] ]
  /\ reference_outputs_ = << >>
  /\ dev = [ i \in 1..NumOutputs |-> "zero" ]
  /\ \E validation_fraction \in {0, 20, 50, 100} :
       mp = [top_x |-> 0, model_type |-> "kLinearRegression",
             validation_fraction |-> validation_fraction, i |-> 0, model_results |-> << >>,
             validation_samples |-> 0, training_samples |-> 0,
             s |-> 0, y_train |-> << >>, y_validation |-> << >>]
  /\ hist = NoHist

\* Lines 442-444: the sizes of the two sets.
ModelPredictionSplit ==
  /\ pc = "mp_split"
  /\ mp' = [mp EXCEPT
              !.validation_samples =
                ValidationSamples(Len(tuning_results_), mp.validation_fraction),
              !.training_samples =
                TrainingSamples(Len(tuning_results_), mp.validation_fraction)]
  /\ pc' = "mp_train"
  /\ UNCHANGED << settings, configurations, call, ret, k, p, search, permutation, rk,
                  tuning_result, tuning_results_, reference_outputs_, dev, hist >>

\* Lines 450-455: y_train[s] = tuning_results_[s].time, for s below
\* training_samples (s counts from 0).
ModelPredictionCopyTraining ==
  /\ pc = "mp_train"
  /\ IF mp.s < mp.training_samples
       THEN /\ mp' = [mp EXCEPT !.y_train = Append(@, tuning_results_[mp.s + 1].time),
                                !.s = @ + 1]
            /\ UNCHANGED pc
       ELSE /\ mp' = [mp EXCEPT !.s = 0]
            /\ pc' = "mp_validation"
  /\ UNCHANGED << settings, configurations, call, ret, k, p, search, permutation, rk,
                  tuning_result, tuning_results_, reference_outputs_, dev, hist >>

\* Lines 458-463: y_validation[s] = tuning_results_[s + training_samples].time,
\* for s below validation_samples.
ModelPredictionCopyValidation ==
  /\ pc = "mp_validation"
  /\ IF mp.s < mp.validation_samples
       THEN /\ mp' = [mp EXCEPT
                        !.y_validation =
                          Append(@, tuning_results_[mp.s + mp.training_samples + 1].time),
                        !.s = @ + 1]
            /\ UNCHANGED pc
       ELSE /\ mp' = [mp EXCEPT !.s = 0]
            /\ pc' = "mp_model"
  /\ UNCHANGED << settings, configurations, call, ret, k, p, search, permutation, rk,
                  tuning_result, tuning_results_, reference_outputs_, dev, hist >>

SplitNext ==
  \/ ModelPredictionSplit
  \/ ModelPredictionCopyTraining
  \/ ModelPredictionCopyValidation

SplitSpec == SplitInit /\ [][SplitNext]_vars

\* The times of the results at positions from..to of the log, in log order.
TimesOf(from, to) == [ s \in 1..(to - from + 1) |-> tuning_results_[from + s - 1].time ]

\* The two sets are the first n - v and the last v results of the log.
SplitByPosition(v) ==
  /\ mp.y_train = TimesOf(1, Len(tuning_results_) - v)
  /\ mp.y_validation = TimesOf(Len(tuning_results_) - v + 1, Len(tuning_results_))

\* C20: ModelPrediction splits the N stored results by position, without
\* shuffling: the training set is the first N - V results and the validation
\* set the last V, with V = floor(N * v_frac) for the validation fraction
\* v_frac of the call; the sets are disjoint, contiguous and cover the log.
C20_SplitByPositionAndFraction ==
  pc = "mp_model" =>
    SplitByPosition((Len(tuning_results_) * mp.validation_fraction) \div 100)

\* What the code has: the same split with the fraction of line 442, whatever
\* the fraction of the call.
SplitByPositionFixedFraction ==
  pc = "mp_model" =>
    SplitByPosition((Len(tuning_results_) * kValidationPercent) \div 100)

\* C21: the size of the validation set follows the validation_fraction argument
\* of the call: for every fraction v the caller passes, the validation set has
\* floor(N * v) samples and the training set the other N - floor(N * v).
C21_ValidationSizeFollowsArgument ==
  pc \in {"mp_train", "mp_validation", "mp_model"} =>
    /\ mp.validation_samples = (Len(tuning_results_) * mp.validation_fraction) \div 100
    /\ mp.training_samples = Len(tuning_results_) - mp.validation_samples

\* What the code has: the sizes follow the fraction of line 442, whatever the
\* argument of the call.
ValidationSizeFixed ==
  pc \in {"mp_train", "mp_validation", "mp_model"} =>
    /\ mp.validation_samples = (Len(tuning_results_) * kValidationPercent) \div 100
    /\ mp.training_samples = Len(tuning_results_) - mp.validation_samples

\* ModelPrediction is testing the configurations of kernel k.
TestingKernel == call = "ModelPrediction" /\ pc \in {"mp_loop", "mp_verify", "mp_append"}

\* The part of C22 that holds for calls that are not cut short: one prediction
\* per configuration of the enumeration, in ascending order of predicted time;
\* the configuration under test is the one ranked at position mp.i, one result
\* was appended per configuration tested before it, and a call that returns
\* has appended min(K, N_valid) results per kernel.
RankedTests ==
  /\ TestingKernel =>
       /\ Len(mp.model_results) = Len(configurations[k])
       /\ { mp.model_results[i][1] + 1 : i \in 1..Len(mp.model_results) }
            = 1..Len(configurations[k])
       /\ \A i, j \in 1..Len(mp.model_results) :
            i < j => mp.model_results[i][2] <= mp.model_results[j][2]
       /\ mp.i <= Min(mp.top_x, Len(configurations[k]))
       /\ \A i \in 1..mp.i :
            tuning_results_[Len(tuning_results_) - mp.i + i].configuration
              = configurations[k][mp.model_results[i][1] + 1]
       /\ pc \in {"mp_verify", "mp_append"} =>
            /\ mp.i < Min(mp.top_x, Len(configurations[k]))
            /\ permutation = configurations[k][mp.model_results[mp.i + 1][1] + 1]
  /\ (call = "ModelPrediction" /\ pc = "mp_kernel" /\ k > Len(kernels_)) =>
       hist.appended = ResultsOfModelPrediction(1, mp.top_x)

\* C22: for each kernel ModelPrediction ranks every configuration of the
\* enumeration by predicted time and re-measures exactly the min(K, N_valid)
\* best ones, in ascending order of prediction, appending one result for each:
\* no test of a ranked configuration is abandoned.
C22_TopKRemeasured ==
  /\ RankedTests
  /\ hist.stopped_in # "mp_verify"

\* C23: the result stored for a failed candidate keeps the failure sentinel:
\* the rewrite of the time for printing touches the local result only, after
\* the append and after the push to the searcher, so the appended result has
\* the time RunKernel returned, the results stored before are unchanged and
\* the feedback the searcher got is that same time.
C23_StoredTimeKeepsSentinel ==
  [][ /\ \A s \in 1..Len(tuning_results_) :
           s <= Len(tuning_results_') => tuning_results_'[s] = tuning_results_[s]
      /\ ResultAppended =>
           /\ LastResult'.time = tuning_result.time
           /\ search'.pushed = search.pushed
           /\ call = "Tune" /\ pc = "append" => search.pushed = tuning_result.time ]_vars

\* A failed candidate of the search loop was stored with the sentinel, which
\* is also what the searcher was given.
C23_Witness ==
  /\ call = "Tune"
  /\ pc = "loop"
  /\ hist.recorded
  /\ tuning_results_ # << >>
  /\ LastResult.time = FloatMax
  /\ search.pushed = FloatMax

\* ------------------------------------------------- the regression model
\* The number of features of a sample: one per tuning parameter (line 445).
NumFeatures == Len(ParameterNames)

\* The samples ModelPrediction hands to the model: rows of feature values.
FeatureRows == [ 1..NumFeatures -> 0..MaxValue ]
TrainingData == [ 1..2 -> FeatureRows ]
ValidationData == [ 1..1 -> FeatureRows ]

RECURSIVE ColumnSum(_, _, _)
ColumnSum(x, f, m) == IF m = 0 THEN 0 ELSE x[m][f] + ColumnSum(x, f, m - 1)

RECURSIVE ColumnSumOfSquares(_, _, _)
ColumnSumOfSquares(x, f, m) ==
  IF m = 0 THEN 0 ELSE x[m][f] * x[m][f] + ColumnSumOfSquares(x, f, m - 1)

\* MLModel::ComputeNormalizations: per column, what determines its mean and its
\* deviation: the number of samples, their sum and their sum of squares.
ComputeNormalizations(x) ==
  [ f \in 1..NumFeatures |->
      [m |-> Len(x), sum |-> ColumnSum(x, f, Len(x)),
       squares |-> ColumnSumOfSquares(x, f, Len(x))] ]

\* MLModel::NormalizeFeatures: every value is shifted and scaled with the
\* statistics of its column; the result is kept as the pair that determines it.
NormalizeFeatures(x, statistics) ==
  [ s \in 1..Len(x) |->
      [ f \in 1..NumFeatures |-> [value |-> x[s][f], by |-> statistics[f]] ] ]

\* The products of the features i..n of a row with feature i, then those of
\* the features after i.
RECURSIVE Products(_, _, _)
Products(row, i, j) ==
  IF i > Len(row) THEN << >>
  ELSE IF j > Len(row) THEN Products(row, i + 1, i + 1)
  ELSE << [product |-> << row[i], row[j] >>] >> \o Products(row, i, j + 1)

\* MLModel::AddPolynominalFeatures of order 2: the squares and the pairwise
\* products are appended to every row; another order leaves the rows alone.
AddPolynominalFeatures(x, order) ==
  [ s \in 1..Len(x) |-> IF order = 2 THEN x[s] \o Products(x[s], 1, 1) ELSE x[s] ]

\* The pre-processing of Validate if it took the statistics of its own data.
ValidateFeatures_OwnStatistics(x, statistics) ==
  [x_temp |-> AddPolynominalFeatures(NormalizeFeatures(x, ComputeNormalizations(x)), 2),
   statistics |-> ComputeNormalizations(x)]

\* Lines 66-71: Validate normalizes a copy of its data with the statistics of
\* the model and adds the second-order features; the statistics stay.
ValidateFeatures(x, statistics) ==
  [x_temp |-> AddPolynominalFeatures(NormalizeFeatures(x, statistics), 2),
   statistics |-> statistics]

\* A model is constructed; ModelPrediction is about to train it (line 479).
RegressionInit ==
  /\ has_reference_ = FALSE
  /\ kernels_ = << Kernel("A", 2, 1) >>
  /\ kNumRuns = 1
  /\ configurations = << SetConfigurations(Kernel("A", 2, 1)) >>
  /\ call = "ModelPrediction"
  /\ pc = "mp_train_model"
  /\ ret = "none"
  /\ k = 1
  /\ p = 0
  /\ search = NoSearch
  /\ permutation = << >>
  /\ rk = NoRun
  /\ tuning_result = NoResult
  /\ tuning_results_ = << >>
  /\ reference_outputs_ = << >>
  /\ dev = [ i \in 1..NumOutputs |-> "zero" ]
  /\ \E x_train \in TrainingData, x_validation \in ValidationData :
       mp = [top_x |-> 0, model_type |-> "kLinearRegression", validation_fraction |-> 20,
             i |-> 0, model_results |-> << >>, validation_samples |-> 1,
             training_samples |-> 2, x_train |-> x_train, x_validation |-> x_validation,
             statistics |-> << >>, theta_ |-> << >>, x_temp |-> << >>,
             trained |-> [statistics |-> << >>, theta_ |-> << >>, width |-> 0]]
  /\ hist = NoHist

\* LinearRegression::Train (lines 44-62): the statistics are computed from the
\* training data, a copy of the data is normalized with them and extended, and
\* GradientDescent leaves one weight per feature of the extended rows.  The
\* field trained remembers what Train left.
RegressionTrain ==
  /\ pc = "mp_train_model"
  /\ LET statistics == ComputeNormalizations(mp.x_train)
         x_temp == AddPolynominalFeatures(NormalizeFeatures(mp.x_train, statistics), 2)
     IN \E weight \in 0..1 :
          mp' = [mp EXCEPT
                   !.statistics = statistics,
                   !.x_temp = x_temp,
                   !.theta_ = [ n \in 1..Len(x_temp[1]) |-> weight ],
                   !.trained = [statistics |-> statistics,
                                theta_ |-> [ n \in 1..Len(x_temp[1]) |-> weight ],
                                width |-> Len(x_temp[1])]]
  /\ pc' = "mp_validate_model"
  /\ UNCHANGED << settings, configurations, call, ret, k, p, search, permutation, rk,
                  tuning_result, tuning_results_, reference_outputs_, dev, hist >>

\* LinearRegression::Validate (lines 64-78): pre-processes a copy of the
\* validation data and verifies the hypothesis on it; Verify and Hypothesis
\* (lines 82-91) only read the weights.
RegressionValidate ==
  /\ pc = "mp_validate_model"
  /\ mp' = [mp EXCEPT
              !.x_temp = ValidateFeatures(mp.x_validation, mp.statistics).x_temp,
              !.statistics = ValidateFeatures(mp.x_validation, mp.statistics).statistics]
  /\ pc' = "mp_validated"
  /\ UNCHANGED << settings, configurations, call, ret, k, p, search, permutation, rk,
                  tuning_result, tuning_results_, reference_outputs_, dev, hist >>

RegressionNext ==
  \/ RegressionTrain
  \/ RegressionValidate

RegressionSpec == RegressionInit /\ [][RegressionNext]_vars

\* C24: Validate reuses the statistics Train captured and never recomputes or
\* changes them; it pre-processes like Train does (normalize with the training
\* statistics, then add the second-order features), so its rows are as long as
\* the training rows, and it leaves the learned weights as Train left them.
C24_ValidateReusesTrainingStatistics ==
  pc = "mp_validated" =>
    /\ mp.statistics = mp.trained.statistics
    /\ mp.statistics = ComputeNormalizations(mp.x_train)
    /\ mp.x_temp =
         AddPolynominalFeatures(
           NormalizeFeatures(mp.x_validation, ComputeNormalizations(mp.x_train)), 2)
    /\ \A s \in 1..Len(mp.x_temp) : Len(mp.x_temp[s]) = mp.trained.width
    /\ mp.theta_ = mp.trained.theta_
    /\ Len(mp.theta_) = mp.trained.width

\* Validate has run on data whose statistics differ from those of the
\* training data.
C24_Witness ==
  /\ pc = "mp_validated"
  /\ ComputeNormalizations(mp.x_validation) # ComputeNormalizations(mp.x_train)
  /\ mp.trained.width > NumFeatures

\* The steps of RunKernel after a build that returned kSuccess.
BuiltSteps == {"reset", "bind", "localmem", "launch", "timing"}

\* C25: Program::Build returns kError exactly for a build-program failure,
\* kInvalid exactly for an invalid binary and kSuccess only for success; every
\* other status raises; RunKernel resets, binds and launches nothing unless
\* Build returned kSuccess.
C25_BuildStatusFollowsToolchain ==
  /\ rk.build_status # "none" =>
       /\ rk.build_status = "kError" <=> rk.cl_status = "CL_BUILD_PROGRAM_FAILURE"
       /\ rk.build_status = "kInvalid" <=> rk.cl_status = "CL_INVALID_BINARY"
       /\ rk.build_status = "kSuccess" <=> rk.cl_status = "CL_SUCCESS"
       /\ rk.build_status = "exception" <=>
            rk.cl_status \notin {"CL_SUCCESS", "CL_BUILD_PROGRAM_FAILURE", "CL_INVALID_BINARY"}
  /\ (pc \in BuiltSteps \/ rk.resets > 0 \/ rk.binds > 0 \/ rk.launches > 0) =>
       rk.build_status = "kSuccess"
  /\ (pc = "return" /\ rk.build_status # "kSuccess") => tuning_result.time = FloatMax

\* The toolchain reported a status that is neither success nor one of the two
\* build failures: RunKernel is in its catch block and has launched nothing.
C25_Witness ==
  /\ pc = "return"
  /\ rk.cl_status = "CL_OUT_OF_RESOURCES"
  /\ rk.build_status = "exception"
  /\ rk.launches = 0

\* ------------------------------------------------------ the conv sample
\* samples/conv/conv.cc: the half filter size, the filter size and the sizes of
\* the matrix (lines 53-58).
HFS == 3
FS == HFS + HFS + 1
kSizeX == 8192
kSizeY == 4096

\* Lines 39-45.
CeilDiv(a, b) == (a + b - 1) \div b
IsMultiple(a, b) == (a \div b) * b = a

\* Lines 144-149: the values of TBX_XL and TBY_XL.
HaloIntegers == (8..26) \cup (32..42) \cup (64..74)

\* Lines 152-155, 160-163 and 171: the constraints, on the values of the
\* parameters they are registered with.
HaloThreads(v) ==
  IF v[1] = 2 THEN v[2] = v[3] + CeilDiv(2 * HFS, v[4]) ELSE v[2] = v[3]
VectorConstraint(v) ==
  IF v[1] = 2 THEN IsMultiple(v[3], v[2]) /\ IsMultiple(2 * HFS, v[2])
  ELSE IsMultiple(v[3], v[2])
PaddingConstraint(v) == v[2] = 0 \/ v[1] # 0

\* Lines 131-151: the parameters in the order they are added, and the
\* configurations of them that pass the constraints of lines 156-172.
ConvParameters ==
  << "TBX", "TBY", "LOCAL", "WPTX", "WPTY", "VECTOR", "UNROLL_FACTOR", "PADDING",
     "TBX_XL", "TBY_XL" >>
ConvConfiguration(tbx, tby, loc, wptx, wpty, vector, unroll, padding, tbx_xl, tby_xl) ==
  LET values == << tbx, tby, loc, wptx, wpty, vector, unroll, padding, tbx_xl, tby_xl >>
  IN [ i \in 1..Len(ConvParameters) |-> [name |-> ConvParameters[i], value |-> values[i]] ]
ConvConfigurations ==
  UNION { UNION { UNION {
    { ConvConfiguration(tbx, tby, loc, wptx, wpty, vector, unroll, padding, tbx_xl, tby_xl) :
        tbx_xl \in { x \in HaloIntegers : HaloThreads(<< loc, x, tbx, wptx >>) },
        tby_xl \in { y \in HaloIntegers : HaloThreads(<< loc, y, tby, wpty >>) },
        unroll \in {1, FS} } :
      vector \in { v \in {1, 2, 4} : VectorConstraint(<< loc, v, wptx >>) },
      padding \in { q \in {0, 1} : PaddingConstraint(<< loc, q >>) } } :
    tbx \in {8, 16, 32, 64}, tby \in {8, 16, 32, 64}, loc \in {0, 1, 2} } :
    wptx \in {1, 2, 4, 8}, wpty \in {1, 2, 4, 8} }

\* The value of a parameter in a configuration.
SettingValue(config, name) ==
  config[CHOOSE i \in 1..Len(config) : config[i].name = name].value

\* The modifiers without the multiplication of the global size.
ThreadSizeModifiers_GlobalNotMultiplied ==
  << [type |-> "MulLocalSize", range |-> << "TBX_XL", "TBY_XL" >>],
     [type |-> "DivGlobalSize", range |-> << "TBX", "TBY" >>],
     [type |-> "DivGlobalSize", range |-> << "WPTX", "WPTY" >>] >>

\* Lines 182-185: the modifiers of the thread sizes, in the order of the calls.
ThreadSizeModifiers ==
  << [type |-> "MulLocalSize", range |-> << "TBX_XL", "TBY_XL" >>],
     [type |-> "MulGlobalSize", range |-> << "TBX_XL", "TBY_XL" >>],
     [type |-> "DivGlobalSize", range |-> << "TBX", "TBY" >>],
     [type |-> "DivGlobalSize", range |-> << "WPTX", "WPTY" >>] >>

\* KernelInfo::ComputeRanges, one modifier: a multiplication or an integer
\* division of every axis of the range by the value of its parameter.
ApplyModifier(range, modifier, config, type) ==
  [ i \in 1..Len(range) |->
      IF modifier.type # type THEN range[i]
      ELSE IF type = "DivGlobalSize"
        THEN range[i] \div SettingValue(config, modifier.range[i])
        ELSE range[i] * SettingValue(config, modifier.range[i]) ]

\* The kernel is added with its base ranges (line 130) and one of the valid
\* configurations is about to get its ranges (tuner_impl.cc line 184).
ConvInit ==
  /\ has_reference_ = TRUE
  /\ kernels_ = << Kernel("conv", Len(ConvParameters), 1) >>
  /\ kNumRuns = 1
  /\ \E config \in ConvConfigurations :
       /\ configurations = << << config >> >>
       /\ permutation = config
  /\ call = "Tune"
  /\ pc = "ranges"
  /\ ret = "verify"
  /\ k = 1
  /\ p = 0
  /\ search = NoSearch
  /\ rk = [name |-> "conv", global |-> << kSizeX, kSizeY >>, local |-> << 1, 1 >>,
           modifiers |-> 0, exact |-> TRUE]
  /\ tuning_result = NoResult
  /\ tuning_results_ = << >>
  /\ reference_outputs_ = << >>
  /\ dev = [ i \in 1..NumOutputs |-> "zero" ]
  /\ mp = NoModel
  /\ hist = NoHist

\* ComputeRanges applies the next modifier; exact records that every division
\* so far left no remainder.
ComputeRangesStep ==
  /\ pc = "ranges"
  /\ rk.modifiers < Len(ThreadSizeModifiers)
  /\ LET modifier == ThreadSizeModifiers[rk.modifiers + 1] IN
       rk' = [rk EXCEPT
                !.modifiers = @ + 1,
                !.local = ApplyModifier(@, modifier, permutation, "MulLocalSize"),
                !.global = ApplyModifier(ApplyModifier(@, modifier, permutation, "MulGlobalSize"),
                                         modifier, permutation, "DivGlobalSize"),
                !.exact = @ /\ (modifier.type = "DivGlobalSize" =>
                                  \A i \in 1..2 :
                                    IsMultiple(rk.global[i],
                                               SettingValue(permutation, modifier.range[i])))]
  /\ UNCHANGED << settings, configurations, call, pc, ret, k, p, search, permutation,
                  tuning_result, tuning_results_, reference_outputs_, dev, mp, hist >>

\* The ranges are computed: RunKernel is called (line 187).
ComputeRangesDone ==
  /\ pc = "ranges"
  /\ rk.modifiers = Len(ThreadSizeModifiers)
  /\ pc' = "build"
  /\ UNCHANGED << settings, configurations, call, ret, k, p, search, permutation, rk,
                  tuning_result, tuning_results_, reference_outputs_, dev, mp, hist >>

ConvNext ==
  \/ ComputeRangesStep
  \/ ComputeRangesDone

ConvSpec == ConvInit /\ [][ConvNext]_vars

\* C26: for every configuration of the conv sample that passes its
\* constraints, the transforms applied in order to the base ranges make every
\* division exact and give a global size that is a multiple of the local size
\* on each axis.
C26_ConvRangesDivisible ==
  /\ rk.exact
  /\ pc = "build" =>
       /\ rk.local = << SettingValue(permutation, "TBX_XL"), SettingValue(permutation, "TBY_XL") >>
       /\ \A i \in 1..2 : rk.local[i] > 0 /\ rk.global[i] > 0
                          /\ IsMultiple(rk.global[i], rk.local[i])

\* The ranges of a configuration with halo threads are computed: the local
\* size is not the work-group size the global size is divided by.
C26_Witness ==
  /\ pc = "build"
  /\ SettingValue(permutation, "LOCAL") = 2
  /\ rk.local = << 70, 9 >>
  /\ rk.global = << (kSizeX \div 64) * 70, (kSizeY \div 64) * 9 >>

\* ------------------------------------------- Device::IsThreadConfigValid
\* Device::MaxWorkItemDimensions() (clpp11.h 169-171): the device has one limit
\* per axis it supports.
MaxWorkItemDimensions == Len(MaxWorkItemSizes)

\* The local ranges IsThreadConfigValid can be called with: up to one axis more
\* than the device supports.
ThreadConfigs ==
  UNION { [ 1..d -> 1..MaxLocal ] : d \in 1..(MaxWorkItemDimensions + 1) }

\* Line 190-191: the product of the items of local.
RECURSIVE LocalSize(_, _)
LocalSize(local, n) == IF n = 0 THEN 1 ELSE LocalSize(local, n - 1) * local[n]

\* What MaxWorkItemSizes()[i] can give, i counted from 1: the limit of the
\* axis, or, past the end of the vector, any value ("missing" marks that the
\* read was outside the vector).
ReadMaxWorkItemSize(i) ==
  IF i <= Len(MaxWorkItemSizes)
    THEN { [limit |-> MaxWorkItemSizes[i], missing |-> FALSE] }
    ELSE { [limit |-> v, missing |-> TRUE] : v \in 0..MaxLocal }

\* Device::IsThreadConfigValid(local) is called (clpp11.h 189).
ThreadConfigInit ==
  /\ has_reference_ = FALSE
  /\ kernels_ = << Kernel("A", 2, 1) >>
  /\ kNumRuns = 1
  /\ configurations = << SetConfigurations(Kernel("A", 2, 1)) >>
  /\ call = "IsThreadConfigValid"
  /\ pc = "local_size"
  /\ ret = "none"
  /\ k = 1
  /\ p = 0
  /\ search = NoSearch
  /\ permutation = << >>
  /\ \E local \in ThreadConfigs :
       rk = [name |-> "A", local |-> local, local_size |-> 0, i |-> 0, result |-> "none",
             read_missing |-> FALSE]
  /\ tuning_result = NoResult
  /\ tuning_results_ = << >>
  /\ reference_outputs_ = << >>
  /\ dev = [ i \in 1..NumOutputs |-> "zero" ]
  /\ mp = NoModel
  /\ hist = NoHist

\* Lines 190-191.
ThreadConfigLocalSize ==
  /\ pc = "local_size"
  /\ rk' = [rk EXCEPT !.local_size = LocalSize(rk.local, Len(rk.local))]
  /\ pc' = "items"
  /\ UNCHANGED << settings, configurations, call, ret, k, p, search, permutation,
                  tuning_result, tuning_results_, reference_outputs_, dev, mp, hist >>

\* Lines 192-194: one iteration of the loop over the axes of local (i counts
\* from 0); a read past the end of the limits may also end the process.
ThreadConfigItems ==
  /\ pc = "items"
  /\ IF rk.i < Len(rk.local)
       THEN \E read \in ReadMaxWorkItemSize(rk.i + 1) :
              \/ /\ rk' = [rk EXCEPT
                             !.i = @ + 1,
                             !.read_missing = @ \/ read.missing,
                             !.result = IF rk.local[rk.i + 1] > read.limit THEN FALSE ELSE @]
                 /\ pc' = IF rk.local[rk.i + 1] > read.limit THEN "done" ELSE "items"
              \/ /\ read.missing
                 /\ rk' = [rk EXCEPT !.read_missing = TRUE]
                 /\ pc' = "crashed"
       ELSE /\ pc' = "group"
            /\ UNCHANGED rk
  /\ UNCHANGED << settings, configurations, call, ret, k, p, search, permutation,
                  tuning_result, tuning_results_, reference_outputs_, dev, mp, hist >>

\* Line 195.
ThreadConfigGroup ==
  /\ pc = "group"
  /\ IF rk.local_size > MaxWorkGroupSize
       THEN rk' = [rk EXCEPT !.result = FALSE] /\ pc' = "done"
       ELSE UNCHANGED rk /\ pc' = "dimensions"
  /\ UNCHANGED << settings, configurations, call, ret, k, p, search, permutation,
                  tuning_result, tuning_results_, reference_outputs_, dev, mp, hist >>

\* Lines 196-197.
ThreadConfigDimensions ==
  /\ pc = "dimensions"
  /\ rk' = [rk EXCEPT !.result = ~(Len(rk.local) > MaxWorkItemDimensions)]
  /\ pc' = "done"
  /\ UNCHANGED << settings, configurations, call, ret, k, p, search, permutation,
                  tuning_result, tuning_results_, reference_outputs_, dev, mp, hist >>

ThreadConfigNext ==
  \/ ThreadConfigLocalSize
  \/ ThreadConfigItems
  \/ ThreadConfigGroup
  \/ ThreadConfigDimensions

ThreadConfigSpec == ThreadConfigInit /\ [][ThreadConfigNext]_vars

\* What the claim requires of local.
ThreadConfigWithinLimits(local) ==
  /\ Len(local) <= MaxWorkItemDimensions
  /\ \A i \in 1..Len(local) : local[i] <= MaxWorkItemSizes[i]
  /\ LocalSize(local, Len(local)) <= MaxWorkGroupSize

\* C27: IsThreadConfigValid(local) returns true exactly when local has no more
\* axes than the device supports, every local size is within the limit of its
\* axis and the product of the local sizes is within the work-group limit; it
\* returns, and never reads a limit of an axis the device does not have.
C27_ThreadConfigValidIffWithinLimits ==
  /\ pc = "done" => rk.result = ThreadConfigWithinLimits(rk.local)
  /\ ~rk.read_missing
  /\ pc # "crashed"

\* What the code has: for a local range with no more axes than the device
\* supports the result is as the claim says and no missing limit is read, and
\* whenever IsThreadConfigValid returns, it returns what the claim says.
ThreadConfigValidWithinDimensions ==
  /\ pc = "done" => rk.result = ThreadConfigWithinLimits(rk.local)
  /\ Len(rk.local) <= MaxWorkItemDimensions => ~rk.read_missing /\ pc # "crashed"

\* C28: in Tune and in ModelPrediction a candidate for which RunKernel returned
\* the failure sentinel is reported through the failure branch, and the warning
\* branch is taken only for candidates that ran and failed the verification.
C28_FailuresReportedAsFailures ==
  pc \in {"append", "mp_append"} =>
    /\ tuning_result.time = FloatMax =>
         PrintBranch(Stored(tuning_result, permutation)) = "failure"
    /\ PrintBranch(Stored(tuning_result, permutation)) = "warning" =>
         hist.ran /\ ~tuning_result.status

\* What the code has: the failure branch is never taken.
FailureBranchNeverTaken ==
  pc \in {"append", "mp_append"} =>
    PrintBranch(Stored(tuning_result, permutation)) # "failure"

\* ------------------------------------------------------ Buffer transfers
\* clpp11.h 426: the access modes of a buffer; 456-519: its transfer functions
\* and the host containers they are overloaded for.
BufferAccesses == {"kReadOnly", "kWriteOnly", "kReadWrite"}
Transfers == {"ReadAsync", "Read", "WriteAsync", "Write"}
HostContainers == {"pointer", "vector", "BufferHost"}

\* Buffer::GetSize (clpp11.h 532-538): the allocated size of the device buffer,
\* in bytes.
GetSize == MaxBytes - 1

\* Read if it did not look at the access mode.
Rejects_ReadAccessUnchecked(transfer, container, access, size, host_size) ==
  IF transfer = "ReadAsync"
    THEN \/ container # "pointer" /\ host_size < size
         \/ access = "kWriteOnly"
    ELSE IF transfer = "Read" THEN FALSE
    ELSE \/ access = "kReadOnly"
         \/ GetSize < size

\* Whether a transfer function raises through Error before it enqueues
\* anything (clpp11.h 457-519), following the calls between the overloads:
\* ReadAsync on a container tests the size of the container and calls ReadAsync
\* on its data, which tests the access mode; Read on a container calls Read on
\* its data, which calls ReadAsync on the data; WriteAsync and Write on a
\* container call WriteAsync on its data, which tests the access mode and the
\* size of the device buffer.
Rejects(transfer, container, access, size, host_size) ==
  IF transfer = "ReadAsync"
    THEN \/ container # "pointer" /\ host_size < size
         \/ access = "kWriteOnly"
    ELSE IF transfer = "Read" THEN access = "kWriteOnly"
    ELSE \/ access = "kReadOnly"
         \/ GetSize < size

\* The status of clEnqueueReadBuffer / clEnqueueWriteBuffer: a request for more
\* bytes than the device buffer has is refused; another one is enqueued, unless
\* the runtime is out of resources.
EnqueueTransfer(size) ==
  IF size > GetSize THEN {"CL_INVALID_VALUE"} ELSE {"CL_SUCCESS", "CL_OUT_OF_RESOURCES"}

\* A transfer function of a buffer is called with a byte count and a host
\* container of some size.
BufferInit ==
  /\ has_reference_ = FALSE
  /\ kernels_ = << Kernel("A", 2, 1) >>
  /\ kNumRuns = 1
  /\ configurations = << SetConfigurations(Kernel("A", 2, 1)) >>
  /\ call = "Buffer"
  /\ pc = "call"
  /\ ret = "none"
  /\ k = 1
  /\ p = 0
  /\ search = NoSearch
  /\ permutation = << >>
  /\ \E transfer \in Transfers, container \in HostContainers, access \in BufferAccesses,
        size \in 0..MaxBytes, host_size \in 0..MaxBytes :
       rk = [name |-> "A", transfer |-> transfer, container |-> container, access |-> access,
             size |-> size, host_size |-> host_size, rejected |-> FALSE, queue |-> << >>,
             device |-> "device data", host |-> "host data"]
  /\ tuning_result = NoResult
  /\ tuning_results_ = << >>
  /\ reference_outputs_ = << >>
  /\ dev = [ i \in 1..NumOutputs |-> "zero" ]
  /\ mp = NoModel
  /\ hist = NoHist

\* The tests before the enqueue: Error raises, or the enqueue is reached.
BufferChecks ==
  /\ pc = "call"
  /\ IF Rejects(rk.transfer, rk.container, rk.access, rk.size, rk.host_size)
       THEN rk' = [rk EXCEPT !.rejected = TRUE] /\ pc' = "raised"
       ELSE UNCHANGED rk /\ pc' = "enqueue"
  /\ UNCHANGED << settings, configurations, call, ret, k, p, search, permutation,
                  tuning_result, tuning_results_, reference_outputs_, dev, mp, hist >>

\* CheckError(clEnqueueReadBuffer(...)) or CheckError(clEnqueueWriteBuffer(...))
\* (clpp11.h 460, 493).
BufferEnqueue ==
  /\ pc = "enqueue"
  /\ \E cl_status \in EnqueueTransfer(rk.size) :
       IF cl_status = "CL_SUCCESS"
         THEN /\ rk' = [rk EXCEPT !.queue = << rk.transfer >>]
              /\ pc' = "enqueued"
         ELSE UNCHANGED rk /\ pc' = "raised"
  /\ UNCHANGED << settings, configurations, call, ret, k, p, search, permutation,
                  tuning_result, tuning_results_, reference_outputs_, dev, mp, hist >>

\* The device runs the transfer: a read copies size bytes to the host, past the
\* end of a host container that is smaller; a write copies them to the device.
BufferTransfer ==
  /\ pc = "enqueued"
  /\ rk' = [rk EXCEPT
              !.queue = << >>,
              !.host = IF rk.transfer \in {"Read", "ReadAsync"}
                         THEN (IF rk.host_size < rk.size THEN "overrun" ELSE "device data")
                         ELSE @,
              !.device = IF rk.transfer \in {"Write", "WriteAsync"} THEN "host data" ELSE @]
  /\ pc' = "done"
  /\ UNCHANGED << settings, configurations, call, ret, k, p, search, permutation,
                  tuning_result, tuning_results_, reference_outputs_, dev, mp, hist >>

BufferNext ==
  \/ BufferChecks
  \/ BufferEnqueue
  \/ BufferTransfer

BufferSpec == BufferInit /\ [][BufferNext]_vars

\* A transfer that violates the access mode or the size of the buffer.
ViolatesBuffer ==
  \/ rk.transfer \in {"Write", "WriteAsync"} /\ (rk.access = "kReadOnly" \/ rk.size > GetSize)
  \/ rk.transfer \in {"Read", "ReadAsync"} /\ rk.access = "kWriteOnly"

\* C29: a Write or WriteAsync to a read-only buffer or of more bytes than the
\* device buffer has, and a Read or ReadAsync from a write-only buffer, raise
\* before anything is enqueued: the enqueue is never reached, the queue stays
\* empty and the device and host contents stay as they were.
C29_ViolatingTransfersRaiseFirst ==
  ViolatesBuffer =>
    /\ pc \in {"call", "raised"}
    /\ pc = "raised" => rk.rejected
    /\ rk.queue = << >>
    /\ rk.device = "device data"
    /\ rk.host = "host data"

\* A synchronous Read into a vector from a write-only buffer has raised.
C29_Witness ==
  /\ pc = "raised"
  /\ rk.rejected
  /\ rk.transfer = "Read"
  /\ rk.container = "vector"
  /\ rk.access = "kWriteOnly"

\* C30: for each host container, the synchronous Read rejects exactly the
\* requests that ReadAsync with the same arguments rejects, a host vector
\* smaller than the byte count included, and otherwise enqueues the read.
C30_ReadRejectsLikeReadAsync ==
  (rk.transfer = "Read" /\ pc # "call") =>
    /\ rk.rejected <=>
         Rejects("ReadAsync", rk.container, rk.access, rk.size, rk.host_size)
    /\ rk.host # "overrun"

\* What the code has: Read rejects what ReadAsync on the data of the container
\* rejects.
ReadRejectsLikeReadAsyncOnPointer ==
  (rk.transfer = "Read" /\ pc # "call") =>
    (rk.rejected <=> Rejects("ReadAsync", "pointer", rk.access, rk.size, rk.host_size))

====
